---- MODULE Spec2Model ----
(***************************************************************************)
(* A model of the props property framework: the boxed PropertyValue        *)
(* containers, the CallQueue through which listeners are called, and the   *)
(* binding / synchronisation engine of bindable.py.                        *)
(*                                                                         *)
(* Python calls are synchronous and nest.  The only points at which        *)
(* foreign code (a listener) runs are the CallQueue drains, so an          *)
(* operation is cut into micro-operations (the records of todo) at those   *)
(* points: everything between two drains happens in one step.              *)
(***************************************************************************)
EXTENDS Integers, Sequences, FiniteSets, TLC

\* ------------------------------------------------------------------ bounds
NumPV == 3          \* scalar containers (one property on each of 3 hosts)
MaxValue == 1       \* property values are 0..MaxValue
MaxNested == 1      \* writes made by listeners per top-level operation
NumList == 2        \* list containers (one List property on each of 2 hosts)
MaxLen == 3         \* application code lets no list grow beyond MaxLen items
NumFunc == 2        \* functions handed to a CallQueue used on its own
MaxCalls == 4       \* functions handed to that CallQueue before it is idle again
NumDesc == 2        \* descriptors (PropertyBase instances) application code creates
NumClass == 2       \* HasProperties subclasses application code defines
NumInst == 2        \* hosts application code constructs
NumHostPV == 4      \* containers these hosts can hold between them

PVs == 1..NumPV
Values == 0..MaxValue
Lists == 1..NumList
\* The identities an item container can have: enough for the items of every
\* list and one that is in the Bidict of a pair but in no list.
ItemIds == (NumList + 1)..(NumList + NumList * MaxLen + 1)
Objs == Lists \cup ItemIds

\* id(pv): the integer key under which a container is stored in the
\* boundPropVals / boundAttPropVals dictionaries of its partners.  Object
\* addresses are far outside the range of the property values.
Id(c) == 1000 + c

AttNames == <<"clamped", "enabled", "maxval">>
VARIABLES
    ptype,      \* c -> type of the descriptor (PropertyBase subclass) of c
    kind,       \* c -> "scalar" (the PropertyValue of a property), "list"
                \*      (a PropertyValueList), "item" (the PropertyValue of a
                \*      list item) or "free" (no object has this identity)
    items,      \* l -> the item containers of list l, in order
    maps,       \* {l, m} -> the Bidict shared by the bound lists l and m
    hasL,       \* the containers on which a listener is registered
    ltype,      \* l -> the attributes and allowInvalid of the items of l
    val,        \* c -> PropertyValue.__value
    valid,      \* c -> PropertyValue.__valid
    attrs,      \* c -> PropertyValue._attributes
    allowInv,   \* c -> PropertyValue._allowInvalid
    notif,      \* c -> PropertyValue.__notification
    syncing,    \* c -> pv._syncing
    bv,         \* c -> the containers held in pv.boundPropVals
    ba,         \* c -> the containers held in pv.boundAttPropVals
    queue,      \* CallQueue._queue
    queued,     \* CallQueue._queued
    calling,    \* CallQueue._calling
    skipDup,    \* CallQueue._skipDuplicates
    todo,       \* what is left of the running top-level operation
    exc,        \* the exception the last top-level operation raised, or "none"
    lastOp,     \* the last top-level operation and its arguments
    pre,        \* the state in which the last top-level operation started
    calls,      \* c -> calls of c's listener since that operation started
    midSync,    \* a listener was called while a _sync loop was running
    nested,     \* writes made by listeners since that operation started
    unb,        \* the pairs {a, b} unbound by unbindProps and not bound since
    stack,      \* the calls of CallQueue methods and of queued functions
                \* that have not returned, outermost first
    hist,       \* what the CallQueue was asked to do and did since it was
                \* last idle
    label,      \* d -> PropertyBase._label of descriptor d
    cdict,      \* k -> the descriptors in the __dict__ of class k, by name
    idict,      \* i -> the class and the containers in the __dict__ of instance
                \*      i, by name
    ret         \* what the last call of a method that only reads returned

qvars == <<stack, hist>>
pvars == <<ptype, kind, items, maps, hasL, ltype, val, valid, attrs, allowInv, notif, syncing,
           bv, ba, todo, lastOp, pre, calls, midSync, nested, unb, ret>>
hvars == <<label, cdict, idict>>
vars == <<ptype, kind, items, maps, hasL, ltype, val, valid, attrs, allowInv, notif, syncing, bv,
          ba, queue, queued, calling, skipDup, todo, exc, lastOp, pre, calls,
          midSync, nested, unb, stack, hist, label, cdict, idict, ret>>

\* ------------------------------------------------------- helper operators
RECURSIVE SetToSeq(_)
SetToSeq(S) ==
    IF S = {} THEN <<>>
    ELSE LET m == CHOOSE x \in S : \A y \in S : x <= y
         IN <<m>> \o SetToSeq(S \ {m})

Range(q) == {q[i] : i \in DOMAIN q}

\* The program state that the operators below thread through a call.
Cur == [val |-> val, valid |-> valid, attrs |-> attrs,
        allowInv |-> allowInv, notif |-> notif, syncing |-> syncing,
        bv |-> bv, ba |-> ba, queue |-> queue, queued |-> queued,
        calling |-> calling, skipDup |-> skipDup, kind |-> kind,
        items |-> items, maps |-> maps, hasL |-> hasL,
        calls |-> calls, midSync |-> midSync, exc |-> "none"]

MkOp(o, a, b, n, v, fv, fa) ==
    [op |-> o, a |-> a, b |-> b, n |-> n, v |-> v, fv |-> fv, fa |-> fa]
NoOp == MkOp("none", 0, 0, "", 0, FALSE, FALSE)
Step(s, more) == [s |-> s, more |-> more]
Raise(s, e) == [s |-> [s EXCEPT !.exc = e], more |-> <<>>]

\* ------------------------------------------------ property types (casts)
\* Number.cast, reached through Int.cast / Real.cast: int(value) and
\* float(value) leave the integers of Values as they are; minval is None.
castFunc(at, v) ==
    IF at.clamped = 0 THEN v
    ELSE IF v > at.maxval THEN at.maxval
    ELSE v

validateFunc_any(at, v) == TRUE

\* Number.validate: TRUE iff no ValueError is raised (minval is None).
validateFunc(at, v) == ~(v > at.maxval)

\* PropertyBase._equalityFunc of Int, and Real.__equals on integers.
equalityFunc(x, y) == x = y

\* Object.__init__: the equality function of an Object property declared
\* without one.
defaultEquals(x, y) == FALSE

_equalityFunc_number(pt, x, y) == equalityFunc(x, y)

\* PropertyBase._equalityFunc of a descriptor of type pt, which
\* _makePropVal hands to the container.
_equalityFunc(pt, x, y) ==
    IF pt = "Object" THEN defaultEquals(x, y) ELSE equalityFunc(x, y)

\* alternates.get(value, None), alternates being the dictionary that
\* __generateAlternatesDict makes of altLists; NoChoice stands for None.
NoChoice == -1
Alternate(at, v) ==
    IF \E ch \in DOMAIN at.altLists : v \in at.altLists[ch]
    THEN CHOOSE ch \in DOMAIN at.altLists : v \in at.altLists[ch]
    ELSE NoChoice

\* Choice.cast: an alternate value is replaced with its choice.
Choice_cast(at, v) ==
    IF Alternate(at, v) # NoChoice THEN Alternate(at, v) ELSE v

\* Choice.validate: TRUE iff no ValueError is raised.  Any value passes
\* while there are no choices; otherwise the value must be a choice or the
\* alternate of one, and be enabled.
Choice_validate(at, v) ==
    \/ at.choices = <<>>
    \/ /\ \/ v \in {at.choices[i] : i \in DOMAIN at.choices}
          \/ Alternate(at, v) \in {at.choices[i] : i \in DOMAIN at.choices}
       /\ v \in DOMAIN at.choiceEnabled
       /\ at.choiceEnabled[v]

\* The cast of a descriptor of type pt: PropertyBase.cast (which Object
\* inherits) returns the value, Int and Real go through Number.cast.
cast(pt, at, v) ==
    IF pt = "Object" THEN v
    ELSE IF pt = "Choice" THEN Choice_cast(at, v)
    ELSE castFunc(at, v)

\* The validation of a descriptor of type pt: PropertyBase.validate (which
\* Object inherits) raises nothing without required and validateFunc, Int
\* and Real go through Number.validate.
validate(pt, at, v) ==
    IF pt = "Object" THEN TRUE
    ELSE IF pt = "Choice" THEN Choice_validate(at, v)
    ELSE validateFunc(at, v)

\* ------------------------------------------------------------- CallQueue
\* The listener of container c is called with (value, valid, context, name);
\* context and name are those of c.  src is not part of the program: it
\* records the container whose write the call results from.
Entry(s, c, src) == [fn |-> c, val |-> s.val[c], valid |-> s.valid[c],
                     src |-> src]

\* str(args) of the arguments of an entry.  The arguments above MaxValue are
\* objects that differ from the arguments 0..MaxValue but print like them.
StrArgs(x) == IF x > MaxValue THEN x - (MaxValue + 1) ELSE x

\* The key (func, str(args)) under which CallQueue._push remembers an entry.
Key(e) == <<e.fn, StrArgs(e.val), e.valid>>

Push_front(s, e) ==
    IF s.skipDup /\ Key(e) \in s.queued THEN s
    ELSE [s EXCEPT !.queue = <<e>> \o @,
                   !.queued = IF s.skipDup THEN @ \cup {Key(e)} ELSE @]

Push_always(s, e) ==
    [s EXCEPT !.queue = Append(@, e),
              !.queued = IF s.skipDup THEN @ \cup {Key(e)} ELSE @]

\* CallQueue._push
Push(s, e) ==
    IF s.skipDup /\ Key(e) \in s.queued THEN s
    ELSE [s EXCEPT !.queue = Append(@, e),
                   !.queued = IF s.skipDup THEN @ \cup {Key(e)} ELSE @]

\* _pop that leaves the key of the entry pending.
Pop_pending(s) == [s EXCEPT !.queue = Tail(@)]

\* CallQueue._pop, on a queue that is not empty
Pop(s) ==
    [s EXCEPT !.queue = Tail(@),
              !.queued = IF s.skipDup THEN @ \ {Key(Head(s.queue))} ELSE @]

\* ------------------------------------------------------- CallQueue alone
\* The functions and the arguments application code hands to a CallQueue.
\* The two arguments are different objects with the same str().
Funcs == 1..NumFunc
QArgs == {0, MaxValue + 1}
QEntry(f, a, g) == [fn |-> f, val |-> a, valid |-> TRUE, src |-> g]
NoEntry == QEntry(0, 0, 0)

\* The lists of functions handed to callAll.
Batches == {<<QEntry(f1, a1, 0), QEntry(f2, a2, 0)>> :
               f1 \in Funcs, a1 \in QArgs, f2 \in Funcs, a2 \in QArgs}

\* A call that has not returned: the loop of _call ("drain"), a queued
\* function ("cb") or callAll ("callAll": rest are the functions it has yet
\* to push and any is anyEnqueued).  n is not part of the program: it is
\* the number of functions invoked before the call started.
Frame(k, e, rest, any, n) == [k |-> k, e |-> e, rest |-> rest, any |-> any, n |-> n]

\* What is recorded of the calls: the functions handed to call and callAll
\* (given), the pushes (attempts), the functions invoked and how each ended
\* (outcome), and the number of callAll calls.
NoHist == [given |-> <<>>, attempts |-> <<>>, invoked |-> <<>>,
           outcome |-> <<>>, batches |-> 0]
NoCalls == stack = <<>> /\ hist = NoHist
\* No descriptor is labelled, no class is defined, no host is constructed.
NoClasses ==
    /\ label = [d \in 1..NumDesc |-> <<>>]
    /\ cdict = <<>>
    /\ idict = <<>>
    /\ ret = <<>>

\* The CallQueue and the calls under way.
CQ == [queue |-> queue, queued |-> queued, calling |-> calling,
       skipDup |-> skipDup, stack |-> stack, exc |-> exc]
StoreCQ(q) ==
    /\ queue' = q.queue
    /\ queued' = q.queued
    /\ calling' = q.calling
    /\ stack' = q.stack
    /\ exc' = q.exc

TopFrame(q) == q.stack[Len(q.stack)]
Running(k) == stack # <<>> /\ stack[Len(stack)].k = k
PopFrame(q) == [q EXCEPT !.stack = SubSeq(@, 1, Len(@) - 1)]

\* How deep in re-enqueueing a call made now is: 0 from application code,
\* one more than the running function from a queued function.
Depth == IF stack = <<>> THEN 0 ELSE stack[Len(stack)].e.src + 1

_call_reentrant(q) ==
    [q EXCEPT !.calling = TRUE,
              !.stack = Append(@, Frame("drain", NoEntry, <<>>, FALSE, 0))]

\* CallQueue._call up to the loop: it returns at once if a drain is under
\* way.
_call(q) ==
    IF q.calling THEN q
    ELSE [q EXCEPT !.calling = TRUE,
                   !.stack = Append(@, Frame("drain", NoEntry, <<>>, FALSE, 0))]

\* CallQueue.call
call(q, e) ==
    IF Len(Push(q, e).queue) > Len(q.queue) THEN _call(Push(q, e)) ELSE q

\* CallQueue.callAll: one turn of the loop over funcs
callAll_push(q) ==
    [Push(q, Head(TopFrame(q).rest)) EXCEPT
        !.stack[Len(q.stack)].rest = Tail(@),
        !.stack[Len(q.stack)].any =
            @ \/ Len(Push(q, Head(TopFrame(q).rest)).queue) > Len(q.queue)]

\* CallQueue.callAll after the loop over funcs
callAll_end(q) ==
    IF TopFrame(q).any THEN _call(PopFrame(q)) ELSE PopFrame(q)

QueueEmpty_any(q) == TRUE

\* Queue.get_nowait raises Queue.Empty
QueueEmpty(q) == q.queue = <<>>

_call_propagate(q) ==
    [q EXCEPT !.stack = <<>>, !.exc = "Exception"]

\* CallQueue._call: the except clause around func(*args); the function that
\* raised is over and the loop goes on.
_call_except(q) == PopFrame(q)

\* What an attempt to enqueue e leaves in the history: whether an entry with
\* the key of e was in the queue, and whether e was enqueued.
Attempt(e, q, q1, b) ==
    [e |-> e,
     pending |-> \E i \in DOMAIN q.queue : Key(q.queue[i]) = Key(e),
     accepted |-> Len(q1.queue) > Len(q.queue),
     top |-> q.stack = <<>> \/ q.stack[1].k = "callAll",
     batch |-> b]

\* Application code, or the queued function that is running, calls
\* CallQueue.call(desc, f, (a,)).
Call(f, a) ==
    /\ stack = <<>> \/ Running("cb")
    /\ Len(hist.attempts) < MaxCalls
    /\ StoreCQ(call(CQ, QEntry(f, a, Depth)))
    /\ hist' = [hist EXCEPT !.given = Append(@, QEntry(f, a, Depth)),
                            !.attempts =
                   Append(@, Attempt(QEntry(f, a, Depth), CQ,
                                     Push(CQ, QEntry(f, a, Depth)), 0))]
    /\ UNCHANGED <<hvars, pvars, skipDup>>

\* Application code, or the queued function that is running, calls
\* CallQueue.callAll(es).
CallAll(es) ==
    /\ stack = <<>> \/ Running("cb")
    /\ Len(hist.attempts) + Len(es) <= MaxCalls
    /\ stack' = Append(stack,
                       Frame("callAll", NoEntry,
                             [i \in DOMAIN es |-> [es[i] EXCEPT !.src = Depth]],
                             FALSE, Len(hist.invoked)))
    /\ hist' = [hist EXCEPT !.given = @ \o [i \in DOMAIN es |-> [es[i] EXCEPT !.src = Depth]],
                            !.batches = @ + 1]
    /\ UNCHANGED <<hvars, pvars, queue, queued, calling, skipDup, exc>>

\* callAll pushes the next function of funcs.
CallAllPush ==
    /\ Running("callAll")
    /\ stack[Len(stack)].rest # <<>>
    /\ StoreCQ(callAll_push(CQ))
    /\ hist' = [hist EXCEPT !.attempts =
                   Append(@, Attempt(Head(stack[Len(stack)].rest), CQ,
                                     Push(CQ, Head(stack[Len(stack)].rest)),
                                     hist.batches))]
    /\ UNCHANGED <<hvars, pvars, skipDup>>

\* callAll has pushed every function: it calls _call if one was enqueued,
\* and returns.
CallAllEnd ==
    /\ Running("callAll")
    /\ stack[Len(stack)].rest = <<>>
    /\ StoreCQ(callAll_end(CQ))
    /\ UNCHANGED <<hvars, pvars, skipDup, hist>>

\* _call pops the next entry and calls its function.
Invoke ==
    /\ Running("drain")
    /\ ~QueueEmpty(CQ)
    /\ StoreCQ([Pop(CQ) EXCEPT !.stack =
                   Append(@, Frame("cb", Head(queue), <<>>, FALSE, 0))])
    /\ hist' = [hist EXCEPT !.invoked = Append(@, Head(queue))]
    /\ UNCHANGED <<hvars, pvars, skipDup>>

\* The queued function that is running returns.
CbReturn ==
    /\ Running("cb")
    /\ StoreCQ(PopFrame(CQ))
    /\ hist' = [hist EXCEPT !.outcome = Append(@, "ok")]
    /\ UNCHANGED <<hvars, pvars, skipDup>>

\* The queued function that is running raises an Exception.
CbRaise ==
    /\ Running("cb")
    /\ StoreCQ(_call_except(CQ))
    /\ hist' = [hist EXCEPT !.outcome = Append(@, "raised")]
    /\ UNCHANGED <<hvars, pvars, skipDup>>

\* _call finds the queue empty, leaves the loop, clears _calling and returns.
DrainEnd ==
    /\ Running("drain")
    /\ QueueEmpty(CQ)
    /\ StoreCQ([PopFrame(CQ) EXCEPT !.calling = FALSE])
    /\ UNCHANGED <<hvars, pvars, skipDup, hist>>

\* The call of application code has returned; what was recorded about it is
\* dropped.
ForgetQ ==
    /\ stack = <<>>
    /\ hist # NoHist
    /\ hist' = NoHist
    /\ UNCHANGED <<hvars, pvars, queue, queued, calling, skipDup, exc, stack>>

NextQ ==
    \/ \E f \in Funcs, a \in QArgs : Call(f, a)
    \/ \E es \in Batches : CallAll(es)
    \/ CallAllPush
    \/ CallAllEnd
    \/ Invoke
    \/ CbReturn
    \/ CbRaise
    \/ DrainEnd
    \/ ForgetQ

\* ------------------------------------------------------- binding graph
\* _buildBPVList: the containers bound to self directly or indirectly, in
\* the order of the depth-first search, with the parent of each.  g is
\* boundPropVals or boundAttPropVals; seen is bpvSet, shared by the whole
\* search.  A dictionary is walked in the order of its keys.
RECURSIVE BuildChildren(_, _, _, _, _)
\* BuildNode without the test `b is not self`.
BuildNode_self(g, self, node, seen) ==
    LET bpvs  == SetToSeq({b \in g[node] : b \notin seen})
        seen1 == seen \cup Range(bpvs)
        sub   == BuildChildren(g, self, bpvs, 1, seen1)
    IN [pvs     |-> bpvs \o sub.pvs,
        parents |-> [i \in 1..Len(bpvs) |-> node] \o sub.parents,
        seen    |-> sub.seen]

BuildNode(g, self, node, seen) ==
    LET bpvs  == SetToSeq({b \in g[node] : b # self /\ b \notin seen})
        seen1 == seen \cup Range(bpvs)
        sub   == BuildChildren(g, self, bpvs, 1, seen1)
    IN [pvs     |-> bpvs \o sub.pvs,
        parents |-> [i \in 1..Len(bpvs) |-> node] \o sub.parents,
        seen    |-> sub.seen]

BuildChildren(g, self, bpvs, i, seen) ==
    IF i > Len(bpvs) THEN [pvs |-> <<>>, parents |-> <<>>, seen |-> seen]
    ELSE LET c    == BuildNode(g, self, bpvs[i], seen)
             rest == BuildChildren(g, self, bpvs, i + 1, c.seen)
         IN [pvs     |-> c.pvs \o rest.pvs,
             parents |-> c.parents \o rest.parents,
             seen    |-> rest.seen]

_buildBPVList(g, self) == BuildNode(g, self, self, {})

\* _bindPropVals popping the edges of mine only.
_bindPropVals_oneway(s, mine, other, v, a, unbind) ==
    IF ~unbind
    THEN [s EXCEPT !.bv[mine] = IF v THEN @ \cup {other} ELSE @,
                   !.bv[other] = IF v THEN @ \cup {mine} ELSE @,
                   !.ba[mine] = IF a THEN @ \cup {other} ELSE @,
                   !.ba[other] = IF a THEN @ \cup {mine} ELSE @]
    ELSE [s EXCEPT !.bv[mine] = IF v THEN @ \ {other} ELSE @,
                   !.ba[mine] = IF a THEN @ \ {other} ELSE @]

\* _bindPropVals adding or popping the edges of both kinds, whatever val and
\* att are.
_bindPropVals_both(s, mine, other, v, a, unbind) ==
    IF ~unbind
    THEN [s EXCEPT !.bv[mine] = @ \cup {other}, !.bv[other] = @ \cup {mine},
                   !.ba[mine] = @ \cup {other}, !.ba[other] = @ \cup {mine}]
    ELSE [s EXCEPT !.bv[mine] = @ \ {other}, !.bv[other] = @ \ {mine},
                   !.ba[mine] = @ \ {other}, !.ba[other] = @ \ {mine}]

\* _bindPropVals: adds or pops the edges on both endpoints.  dict.pop of a
\* key that is not there raises KeyError, after the pops made before it.
_bindPropVals(s, mine, other, v, a, unbind) ==
    LET s1 == IF ~v THEN s
              ELSE IF ~unbind
                   THEN [s EXCEPT !.bv[mine] = @ \cup {other},
                                  !.bv[other] = @ \cup {mine}]
              ELSE IF other \notin s.bv[mine] THEN [s EXCEPT !.exc = "KeyError"]
              ELSE IF mine \notin s.bv[other]
                   THEN [s EXCEPT !.bv[mine] = @ \ {other},
                                  !.exc = "KeyError"]
              ELSE [s EXCEPT !.bv[mine] = @ \ {other},
                             !.bv[other] = @ \ {mine}]
    IN IF s1.exc # "none" \/ ~a THEN s1
       ELSE IF ~unbind
            THEN [s1 EXCEPT !.ba[mine] = @ \cup {other},
                            !.ba[other] = @ \cup {mine}]
       ELSE IF other \notin s1.ba[mine] THEN [s1 EXCEPT !.exc = "KeyError"]
       ELSE IF mine \notin s1.ba[other]
            THEN [s1 EXCEPT !.ba[mine] = @ \ {other}, !.exc = "KeyError"]
       ELSE [s1 EXCEPT !.ba[mine] = @ \ {other},
                       !.ba[other] = @ \ {mine}]

\* ----------------------------------------------------- the call engine
\* Run(s, td, inline) carries out the micro-operations of td in order.  At
\* the top level (no drain running) it stops as soon as the CallQueue holds
\* something: the drain runs the listeners, step by step, before the rest.
\* inline is TRUE for the calls made from inside a _sync loop, which has to
\* finish in one piece.
RECURSIVE Run(_, _, _)

\* PropertyValueList.get: the values of the items, in order.
ListVal(s, l) == [i \in 1..Len(s.items[l]) |-> s.val[s.items[l][i]]]

\* PropertyValue.__eq__: the equality function on the two values; on two
\* lists, item by item.
PVEq(s, a, b) ==
    IF s.kind[a] = "list"
    THEN /\ Len(s.items[a]) = Len(s.items[b])
         /\ \A i \in 1..Len(s.items[a]) :
               equalityFunc(ListVal(s, a)[i], ListVal(s, b)[i])
    ELSE equalityFunc(s.val[a], s.val[b])

\* ------------------------------------------------------------- Bidict
\* Bidict._thedict is a function from item containers to item containers.
EmptyBidict == [k \in {} |-> 0]

\* Bidict.get (0 stands for None)
BGet(d, k) == IF k \in DOMAIN d THEN d[k] ELSE 0

\* Bidict.__setitem__
BSet(d, k, v) ==
    [x \in DOMAIN d \cup {k, v} |->
        IF x = v THEN k ELSE IF x = k THEN v ELSE d[x]]

\* Bidict.__delitem__: ok is FALSE when one of the two pops raises KeyError.
BDel(d, k) ==
    IF k \notin DOMAIN d THEN [d |-> d, ok |-> FALSE]
    ELSE LET v  == d[k]
             d1 == [x \in DOMAIN d \ {k} |-> d[x]]
         IN IF v \notin DOMAIN d1 THEN [d |-> d1, ok |-> FALSE]
            ELSE [d |-> [x \in DOMAIN d1 \ {v} |-> d1[x]], ok |-> TRUE]

\* pvl._listPropValMaps[id(other)] = d, on both lists of the pair
SetMap(s, a, b, d) ==
    [s EXCEPT !.maps = [p \in DOMAIN s.maps \cup {{a, b}} |->
                           IF p = {a, b} THEN d ELSE s.maps[p]]]

\* ------------------------------------------------- PropertyValueList
\* A new object gets the smallest identity that no object has.  NoRoom:
\* every identity of the model is taken (the operation is then not a step
\* of the model, see the actions).
NoRoom(s) == \A c \in DOMAIN s.kind : s.kind[c] # "free"
NewId(s) ==
    CHOOSE c \in DOMAIN s.kind :
        /\ s.kind[c] = "free"
        /\ \A d \in DOMAIN s.kind : s.kind[d] = "free" => c <= d

\* The item container the list l creates for the value x: it has the cast,
\* validate and equality functions, the allowInvalid and the attributes of
\* the list type.
NewItem(s, l, c, x) ==
    LET nv == castFunc(ltype[l].attrs, x)
    IN [s EXCEPT !.kind[c] = "item",
                 !.val[c] = nv,
                 !.valid[c] = validateFunc(ltype[l].attrs, nv),
                 !.attrs[c] = ltype[l].attrs,
                 !.allowInv[c] = ltype[l].allowInv]

\* list.insert(i, e) and del list[i] on a Python list, i counted from 0
InsertAt(q, i, e) ==
    LET k == IF i > Len(q) THEN Len(q) ELSE i
    IN SubSeq(q, 1, k) \o <<e>> \o SubSeq(q, k + 1, Len(q))
RemoveAt(q, i) == SubSeq(q, 1, i) \o SubSeq(q, i + 2, Len(q))

ListNotify(l) == <<MkOp("notify", l, l, "", 0, FALSE, FALSE)>>

\* PropertyValueList.insert(i, x)
PVLInsert(s, l, i, x) ==
    LET c  == NewId(s)
        s1 == NewItem(s, l, c, x)
    IN IF NoRoom(s) THEN Raise(s, "NoRoom")
       ELSE IF ~s1.valid[c] /\ ~s1.allowInv[c] THEN Raise(s, "ValueError")
       ELSE Step([s1 EXCEPT !.items[l] = InsertAt(@, i, c)], ListNotify(l))

\* PropertyValueList.__delitem__(i)
PVLDelItem(s, l, i) ==
    IF i >= Len(s.items[l]) THEN Raise(s, "IndexError")
    ELSE Step([s EXCEPT !.items[l] = RemoveAt(@, i)], ListNotify(l))

\* PropertyValueList.__delitem__(slice(n, None))
PVLDelSlice(s, l, n) ==
    Step([s EXCEPT !.items[l] = SubSeq(@, 1, n)], ListNotify(l))

\* PropertyValueList.extend(xs)
RECURSIVE AppendItems(_, _, _, _)
AppendItems(s, l, xs, i) ==
    IF i > Len(xs) THEN s
    ELSE IF NoRoom(s) THEN [s EXCEPT !.exc = "NoRoom"]
    ELSE LET c == NewId(s)
         IN AppendItems([NewItem(s, l, c, xs[i]) EXCEPT
                             !.items[l] = Append(@, c)], l, xs, i + 1)
PVLExtend(s, l, xs) ==
    LET s1 == AppendItems(s, l, xs, 1)
    IN IF s1.exc # "none" THEN Raise(s1, s1.exc) ELSE Step(s1, ListNotify(l))

\* The permutations of 0..n-1, and the number that stands for one of them
\* in the record of an operation.
Perms(n) ==
    {p \in [1..n -> 0..(n - 1)] : \A i, j \in 1..n : i # j => p[i] # p[j]}
RECURSIVE PermCode(_, _)
PermCode(p, i) ==
    IF i > Len(p) THEN 0 ELSE p[i] + (MaxLen + 1) * PermCode(p, i + 1)
PermOf(n, k) == CHOOSE p \in Perms(n) : PermCode(p, 1) = k
Identity(n) == [i \in 1..n |-> i - 1]

\* PropertyValueList.reorder(idxs): the item at the new position i is the
\* one that was at position idxs[i]; no item container is created.
PVLReorder(s, l, idxs) ==
    Step([s EXCEPT !.items[l] = [i \in 1..Len(idxs) |->
                                    s.items[l][idxs[i] + 1]]],
         ListNotify(l))

\* -------------------------------------------------- list synchronisation
\* _syncPropValLists, master longer than slave: the loop over the items of
\* the master, i counted from 0.
RECURSIVE GrowLoop(_, _, _, _)
\* The rest of one turn of that loop, s1 being the state after the insertion
\* into the slave: the new pair goes to the Bidict and is attribute-bound.
GrowPair(s1, master, slave, mpv, i) ==
    IF s1.exc # "none" THEN s1
    ELSE IF i >= Len(s1.items[slave]) THEN [s1 EXCEPT !.exc = "IndexError"]
    ELSE LET spv == s1.items[slave][i + 1]
         IN GrowLoop(_bindPropVals(SetMap(s1, master, slave,
                                          BSet(s1.maps[{master, slave}], mpv,
                                               spv)),
                                   mpv, spv, FALSE, TRUE, FALSE),
                     master, slave, i + 1)

GrowLoop(s, master, slave, i) ==
    IF s.exc # "none" \/ i >= Len(s.items[master]) THEN s
    ELSE LET mpv == s.items[master][i + 1]
         IN IF BGet(s.maps[{master, slave}], mpv) # 0
            THEN GrowLoop(s, master, slave, i + 1)
            ELSE GrowPair(Run(s, <<MkOp("insert", slave, i, "", s.val[mpv],
                                        FALSE, FALSE)>>, TRUE).s,
                          master, slave, mpv, i)

\* _syncPropValLists, master shorter than slave: the loop over the items
\* spvs the slave had, from the last (i = Len(spvs)) to the first.  `mpv
\* not in mpvs` compares the containers with ==.
RECURSIVE ShrinkLoop(_, _, _, _, _)
\* The rest of one turn of that loop, s1 being the state after the deletion
\* from the slave: the pair leaves the Bidict.
ShrinkPair(s1, master, slave, spvs, mpv, i) ==
    LET d == BDel(s1.maps[{master, slave}], mpv)
    IN IF s1.exc # "none" THEN s1
       ELSE IF ~d.ok
            THEN [SetMap(s1, master, slave, d.d) EXCEPT !.exc = "KeyError"]
       ELSE ShrinkLoop(SetMap(s1, master, slave, d.d), master, slave, spvs,
                       i - 1)

ShrinkLoop(s, master, slave, spvs, i) ==
    IF s.exc # "none" \/ i = 0 THEN s
    ELSE LET map == s.maps[{master, slave}]
             spv == spvs[i]
         IN IF spv \notin DOMAIN map THEN [s EXCEPT !.exc = "KeyError"]
            ELSE LET mpv == map[spv]
                 IN IF \E m \in Range(s.items[master]) :
                          m = mpv \/ PVEq(s, mpv, m)
                    THEN ShrinkLoop(s, master, slave, spvs, i - 1)
                    ELSE ShrinkPair(Run(s, <<MkOp("delitem", slave, i - 1, "",
                                                  0, FALSE, FALSE)>>, TRUE).s,
                                    master, slave, spvs, mpv, i)

\* _syncPropValLists, equal lengths and equal order: the loop over the
\* pairs of items at the same position.
RECURSIVE ValueLoop(_, _, _, _, _)
\* The rest of one turn of that loop, s2 being the state after the value of
\* the slave item sv was set: its flags are restored as they were in s.
ValueSet(s, s2, master, slave, sv, i, changed) ==
    IF s2.exc # "none" THEN [s |-> s2, changed |-> changed]
    ELSE ValueLoop([s2 EXCEPT !.allowInv[sv] = s.allowInv[sv],
                              !.notif[sv] = s.notif[sv]],
                   master, slave, i + 1, Append(changed, sv))

ValueLoop(s, master, slave, i, changed) ==
    IF s.exc # "none" \/ i > Len(s.items[slave])
    THEN [s |-> s, changed |-> changed]
    ELSE LET mv == s.items[master][i]
             sv == s.items[slave][i]
         IN IF PVEq(s, mv, sv)
            THEN ValueLoop(s, master, slave, i + 1, changed)
            ELSE ValueSet(s,
                          Run([s EXCEPT !.notif[sv] = FALSE,
                                        !.allowInv[sv] = TRUE],
                              <<MkOp("set", sv, sv, "", s.val[mv], FALSE,
                                     FALSE)>>, TRUE).s,
                          master, slave, sv, i, changed)

\* The position (from 0) of the container c in the sequence q of
\* containers, as list.index finds it on the list of their ids; -1 if it is
\* not there (list.index raises ValueError).
IndexOf(q, c) ==
    IF c \in Range(q) THEN (CHOOSE i \in 1..Len(q) :
                                q[i] = c /\ \A j \in 1..(i - 1) : q[j] # c) - 1
    ELSE -1

\* _syncPropValLists that does nothing.
_syncPropValLists_none(s, master, slave) == [s |-> s, changed |-> <<>>]

\* _syncPropValLists: brings the slave list to the structure of the master
\* list; returns the items of the slave whose value it changed.
_syncPropValLists(s, master, slave) ==
    IF {master, slave} \notin DOMAIN s.maps
    THEN [s |-> [s EXCEPT !.exc = "KeyError"], changed |-> <<>>]
    ELSE LET map   == s.maps[{master, slave}]
             mpvs  == s.items[master]
             spvs  == s.items[slave]
             newOrder == [i \in 1..Len(spvs) |->
                             IndexOf(mpvs, BGet(map, spvs[i]))]
         IN IF Len(mpvs) > Len(spvs)
            THEN [s |-> GrowLoop(s, master, slave, 0), changed |-> <<>>]
            ELSE IF Len(mpvs) < Len(spvs)
            THEN [s |-> ShrinkLoop(s, master, slave, spvs, Len(spvs)),
                  changed |-> <<>>]
            ELSE IF \E i \in 1..Len(spvs) : spvs[i] \notin DOMAIN map
            THEN [s |-> [s EXCEPT !.exc = "KeyError"], changed |-> <<>>]
            ELSE IF \E i \in 1..Len(spvs) : newOrder[i] = -1
            THEN [s |-> [s EXCEPT !.exc = "ValueError"], changed |-> <<>>]
            ELSE IF newOrder # Identity(Len(spvs))
            THEN [s |-> Run(s, <<MkOp("reorder", slave, slave, "",
                                      PermCode(newOrder, 1), FALSE, FALSE)>>,
                            TRUE).s,
                  changed |-> <<>>]
            ELSE ValueLoop(s, master, slave, 1, <<>>)

\* The end of the body of the loop of _sync for one bound list: r is what
\* _syncPropValLists returned, s the state before it.
SyncListDone(s, r, bpv) ==
    IF r.s.exc # "none" THEN r
    ELSE [s       |-> [r.s EXCEPT !.notif[bpv] = s.notif[bpv],
                                  !.syncing[bpv] = FALSE],
          changed |-> r.changed]

\* The body of the loop of _sync for one bound list that differs.
SyncOneList(s, parent, bpv) ==
    SyncListDone(s,
                 _syncPropValLists([s EXCEPT !.syncing[bpv] = TRUE,
                                             !.notif[bpv] = FALSE],
                                   parent, bpv),
                 bpv)

\* The end of the body of the loop of _sync for one bound container: s2 is
\* the state after the set, s the state before the body.
SyncDone(s, s2, bpv) ==
    IF s2.exc # "none" THEN s2
    ELSE [s2 EXCEPT !.allowInv[bpv] = s.allowInv[bpv],
                    !.notif[bpv] = s.notif[bpv],
                    !.syncing[bpv] = FALSE]

\* SyncOp assigning the value through the descriptor of bpv.
SyncOp_descriptor(s, self, bpv, atts, n, v) ==
    IF atts THEN MkOp("setAttribute", bpv, self, n, v, FALSE, FALSE)
    ELSE MkOp("descSet", bpv, self, "", s.val[self], FALSE, FALSE)

\* The set (or setAttribute) the body of the loop of _sync makes on bpv.
SyncOp(s, self, bpv, atts, n, v) ==
    IF atts THEN MkOp("setAttribute", bpv, self, n, v, FALSE, FALSE)
    ELSE MkOp("set", bpv, self, "", s.val[self], FALSE, FALSE)

\* SyncOne leaving the notification of the bound container enabled.
SyncOne_notifying(s, self, bpv, atts, n, v) ==
    LET s2 == Run([s EXCEPT !.syncing[bpv] = TRUE, !.allowInv[bpv] = TRUE],
                  <<SyncOp(s, self, bpv, atts, n, v)>>, TRUE).s
    IN IF s2.exc # "none" THEN s2
       ELSE [s2 EXCEPT !.allowInv[bpv] = s.allowInv[bpv],
                       !.syncing[bpv] = FALSE]

\* The body of the loop of _sync for one bound container that differs.
SyncOne(s, self, bpv, atts, n, v) ==
    SyncDone(s,
             Run([s EXCEPT !.syncing[bpv] = TRUE,
                           !.notif[bpv] = FALSE,
                           !.allowInv[bpv] = TRUE],
                 <<SyncOp(s, self, bpv, atts, n, v)>>, TRUE).s,
             bpv)

\* The loop of _sync.  changed lists the containers to notify in the order
\* in which _notify does it: for a list, the items that changed and then
\* the list.
RECURSIVE SyncLoop(_, _, _, _, _, _, _, _)
\* The loop goes on after the body for a bound list, which returned r.
SyncListNext(r, self, atts, n, v, bl, i, changed, bpv) ==
    SyncLoop(r.s, self, atts, n, v, bl, i + 1,
             changed \o r.changed \o <<bpv>>)

SyncLoop(s, self, atts, n, v, bl, i, changed) ==
    IF i > Len(bl.pvs) \/ s.exc # "none" THEN [s |-> s, changed |-> changed]
    ELSE LET bpv  == bl.pvs[i]
             same == IF atts THEN s.attrs[bpv][n] = v ELSE PVEq(s, self, bpv)
         IN IF same
            THEN SyncLoop(s, self, atts, n, v, bl, i + 1, changed)
            ELSE IF atts \/ s.kind[self] # "list"
            THEN SyncLoop(SyncOne(s, self, bpv, atts, n, v), self, atts, n, v,
                          bl, i + 1, Append(changed, bpv))
            ELSE SyncListNext(SyncOneList(s, bl.parents[i], bpv), self, atts,
                              n, v, bl, i, changed, bpv)

\* _sync: brings every container bound to self, directly or not, to the
\* value (or the attribute) of self; returns the containers it changed.
_sync(s, self, atts, n, v) ==
    IF s.syncing[self] THEN [s |-> s, changed |-> <<>>]
    ELSE SyncLoop(s, self, atts, n, v,
                  _buildBPVList(IF atts THEN s.ba ELSE s.bv, self), 1, <<>>)

\* notify as it is without the patch of bindable.py: no _sync.
_notify_nosync(s, self) ==
    Step(s, <<MkOp("origNotify", self, self, "", 0, FALSE, FALSE)>>)

\* The notifications _notify makes after _sync returned r.
NotifyChanged(r, self) ==
    Step(r.s,
         <<MkOp("origNotify", self, self, "", 0, FALSE, FALSE)>> \o
         [i \in 1..Len(r.changed) |->
             MkOp("origNotify", r.changed[i], self, "", 0, FALSE, FALSE)])

\* _notify: _sync, then the original notify of self, then that of every
\* container _sync changed.
_notify(s, self) == NotifyChanged(_sync(s, self, FALSE, "", 0), self)

\* _notifyAttributeListeners: _sync of the attribute; no attribute
\* listeners are registered, so the original method has nothing to call.
_notifyAttributeListeners(s, self, n, v) == Step(_sync(s, self, TRUE, n, v).s, <<>>)

\* PropertyValue.notify as it was before bindable.py replaced it: nothing
\* when notification is disabled, else the listeners go to the CallQueue.
origNotify(s, c, src, inline) ==
    IF ~s.notif[c] \/ c \notin s.hasL THEN s
    ELSE IF s.calling \/ ~inline THEN Push(s, Entry(s, c, src))
    ELSE [s EXCEPT !.midSync = TRUE, !.calls[c] = @ + 1]

\* PropertyValue.set: cast, validate, store, notify if anything changed.
PVSet(s, c, x) ==
    LET nv == cast(ptype[c], s.attrs[c], x)
        ok == validate(ptype[c], s.attrs[c], nv)
        s1 == [s EXCEPT !.val[c] = nv, !.valid[c] = ok]
    IN IF ~ok /\ ~s.allowInv[c] THEN Raise(s, "ValueError")
       ELSE IF s.valid[c] = ok /\ _equalityFunc(ptype[c], s.val[c], nv)
       THEN Step(s1, <<>>)
       ELSE Step(s1, <<MkOp("notify", c, c, "", 0, FALSE, FALSE)>>)

\* PropertyValue.setAttribute
PVSetAttribute(s, c, n, v) ==
    IF s.attrs[c][n] = v THEN Step(s, <<>>)
    ELSE Step([s EXCEPT !.attrs[c][n] = v],
              <<MkOp("notifyAtt", c, c, n, v, FALSE, FALSE)>>)

\* PropertyValue.setAttributes(atts), atts being the attributes of o.b
PVSetAttributes(s, c, atts) ==
    LET names == SelectSeq(AttNames, LAMBDA n : n \in DOMAIN atts)
    IN Step(s, [i \in 1..Len(names) |->
                   MkOp("setAttribute", c, c, names[i], atts[names[i]],
                        FALSE, FALSE)])

descSet_unchecked(s, c, x) ==
    Step(s, <<MkOp("set", c, c, "", x, FALSE, FALSE)>>)

\* PropertyBase.__set__
descSet(s, c, x) ==
    IF s.attrs[c].enabled = 0 THEN Raise(s, "DisabledError")
    ELSE Step(s, <<MkOp("set", c, c, "", x, FALSE, FALSE)>>)

\* _bindProps leaving allowInvalid of my switched on.
_bindProps_keepflag(s, my, other, bindval, bindatt, unbind) ==
    LET b == MkOp("bindPropVals", my, other, "", IF unbind THEN 1 ELSE 0,
                  bindval, bindatt)
    IN IF unbind THEN Step(s, <<b>>)
       ELSE Step([s EXCEPT !.allowInv[my] = TRUE],
                 (IF bindatt
                  THEN <<MkOp("setAttributes", my, other, "", 0, FALSE, FALSE)>>
                  ELSE <<>>) \o
                 (IF bindval
                  THEN <<MkOp("setFrom", my, other, "", 0, FALSE, FALSE)>>
                  ELSE <<>>) \o <<b>>)

\* _bindProps
_bindProps(s, my, other, bindval, bindatt, unbind) ==
    LET b == MkOp("bindPropVals", my, other, "", IF unbind THEN 1 ELSE 0,
                  bindval, bindatt)
    IN IF unbind THEN Step(s, <<b>>)
       ELSE Step([s EXCEPT !.allowInv[my] = TRUE],
                 (IF bindatt
                  THEN <<MkOp("setAttributes", my, other, "", 0, FALSE, FALSE)>>
                  ELSE <<>>) \o
                 (IF bindval
                  THEN <<MkOp("setFrom", my, other, "", 0, FALSE, FALSE)>>
                  ELSE <<>>) \o
                 <<MkOp("allowInvalid", my, my, "",
                        IF s.allowInv[my] THEN 1 ELSE 0, FALSE, FALSE), b>>)

\* Resize that leaves the list as it is.
Resize_none(s, my, other) == s

\* _bindListProps: my is cut or extended to the length of other.
Resize(s, my, other) ==
    IF Len(s.items[my]) > Len(s.items[other])
    THEN Run(s, <<MkOp("delslice", my, my, "", Len(s.items[other]), FALSE,
                       FALSE)>>, TRUE).s
    ELSE IF Len(s.items[my]) < Len(s.items[other])
    THEN Run(s, <<MkOp("extendFrom", my, other, "", Len(s.items[my]), FALSE,
                       FALSE)>>, TRUE).s
    ELSE s

\* The calls of _notifyAttributeListeners(c, name, val) for the attributes
\* atts.
NotifyAtts(c, atts) ==
    LET names == SelectSeq(AttNames, LAMBDA n : n \in DOMAIN atts)
    IN [i \in 1..Len(names) |->
           MkOp("notifyAtt", c, c, names[i], atts[names[i]], FALSE, FALSE)]

\* _bindListProps, one pair of items: s2 is the state after the attributes
\* and the value were copied with the notification of myItem disabled.  The
\* notification is restored and, if it was enabled, the listeners of myItem
\* are notified.
NotifyItem(s, s2, myItem, atts, bindatt) ==
    IF s2.exc # "none" THEN s2
    ELSE IF ~s.notif[myItem]
    THEN [s2 EXCEPT !.notif[myItem] = s.notif[myItem]]
    ELSE Run([s2 EXCEPT !.notif[myItem] = s.notif[myItem]],
             (IF bindatt THEN NotifyAtts(myItem, atts) ELSE <<>>) \o
             <<MkOp("notify", myItem, myItem, "", 0, FALSE, FALSE)>>,
             TRUE).s

\* _bindListProps, one pair of items: s1 is the state after _bindPropVals on
\* the pair.  The attributes and the value of otherItem go to myItem.
CopyItem(s, s1, myItem, otherItem, atts, bindatt) ==
    IF s1.exc # "none" THEN s1
    ELSE NotifyItem(s,
                    Run(s1,
                        (IF bindatt
                         THEN <<MkOp("setAttributes", myItem, otherItem, "",
                                     0, FALSE, FALSE)>>
                         ELSE <<>>) \o
                        <<MkOp("setFrom", myItem, otherItem, "", 0, FALSE,
                               FALSE)>>, TRUE).s,
                    myItem, atts, bindatt)

\* _bindListProps: the loop over the pairs of items at the same position.
RECURSIVE BindItems(_, _, _, _, _, _, _)
BindItems(s, mine, theirs, bindatt, unbind, i, map) ==
    IF s.exc # "none" \/ i > Len(mine) \/ i > Len(theirs)
    THEN [s |-> s, map |-> map]
    ELSE LET myItem    == mine[i]
             otherItem == theirs[i]
         IN BindItems(CopyItem(s,
                               _bindPropVals([s EXCEPT !.notif[myItem] = FALSE],
                                             myItem, otherItem, FALSE, bindatt,
                                             unbind),
                               myItem, otherItem, s.attrs[otherItem], bindatt),
                      mine, theirs, bindatt, unbind, i + 1,
                      BSet(map, myItem, otherItem))

\* _bindListProps, the end: s5 is the state after the two lists were bound
\* (or unbound).  Notification is restored, the attribute listeners and the
\* listeners of the list are notified.
BindListNotify(s, s5, my, atts) ==
    IF s5.exc # "none" THEN Raise(s5, s5.exc)
    ELSE Step([s5 EXCEPT !.notif[my] = s.notif[my]],
              NotifyAtts(my, atts) \o ListNotify(my))

\* _bindListProps: s4 is the state after the attributes of the other list
\* were copied.  The two lists are bound in value and attributes.
BindListEdges(s, s4, my, other, atts, unbind) ==
    IF s4.exc # "none" THEN Raise(s4, s4.exc)
    ELSE BindListNotify(s, _bindPropVals(s4, my, other, TRUE, TRUE, unbind),
                        my, atts)

\* _bindListProps: r is what the loop over the items returned.  The Bidict
\* of the pair is stored and the attributes of the other list are copied.
BindListAtts(s, r, my, other, unbind) ==
    IF r.s.exc # "none" THEN Raise(r.s, r.s.exc)
    ELSE BindListEdges(s,
                       Run(SetMap(r.s, my, other, r.map),
                           <<MkOp("setAttributes", my, other, "", 0, FALSE,
                                  FALSE)>>, TRUE).s,
                       my, other, r.s.attrs[other], unbind)

\* _bindListProps: s2 is the state after the resize.
BindListItems(s, s2, my, other, bindatt, unbind) ==
    IF s2.exc # "none" THEN Raise(s2, s2.exc)
    ELSE BindListAtts(s,
                      BindItems(s2, s2.items[my], s2.items[other], bindatt,
                                unbind, 1, EmptyBidict),
                      my, other, unbind)

\* _bindListProps
_bindListProps(s, my, other, bindatt, unbind) ==
    BindListItems(s,
                  IF unbind THEN [s EXCEPT !.notif[my] = FALSE]
                  ELSE Resize([s EXCEPT !.notif[my] = FALSE], my, other),
                  my, other, bindatt, unbind)

\* bindProps without the comparison of the descriptor types.
bindProps_unchecked(s, my, other, bindval, bindatt, unbind) ==
    Step(s, <<MkOp(IF s.kind[my] = "list" THEN "_bindListProps"
                   ELSE "_bindProps",
                   my, other, "", IF unbind THEN 1 ELSE 0, bindval, bindatt)>>)

\* bindProps (and unbindProps, which calls it with unbind=True)
bindProps(s, my, other, bindval, bindatt, unbind) ==
    IF ptype[my] # ptype[other] THEN Raise(s, "ValueError")
    ELSE Step(s, <<MkOp(IF s.kind[my] = "list" THEN "_bindListProps"
                        ELSE "_bindProps",
                        my, other, "", IF unbind THEN 1 ELSE 0, bindval,
                        bindatt)>>)

\* One micro-operation.
Exec1(s, o, inline) ==
    CASE o.op = "descSet"       -> descSet(s, o.a, o.v)
      [] o.op = "set"           -> PVSet(s, o.a, o.v)
      [] o.op = "setFrom"       ->
            Step(s, <<MkOp("set", o.a, o.a, "", s.val[o.b], FALSE, FALSE)>>)
      [] o.op = "notify"        -> _notify(s, o.a)
      [] o.op = "origNotify"    -> Step(origNotify(s, o.a, o.b, inline), <<>>)
      [] o.op = "setAttribute"  -> PVSetAttribute(s, o.a, o.n, o.v)
      [] o.op = "setAttributes" -> PVSetAttributes(s, o.a, s.attrs[o.b])
      [] o.op = "notifyAtt"     -> _notifyAttributeListeners(s, o.a, o.n, o.v)
      [] o.op = "allowInvalid"  ->
            Step([s EXCEPT !.allowInv[o.a] = (o.v = 1)], <<>>)
      [] o.op = "bindPropVals"  ->
            Step(_bindPropVals(s, o.a, o.b, o.fv, o.fa, o.v = 1), <<>>)
      [] o.op = "_bindProps"    ->
            _bindProps(s, o.a, o.b, o.fv, o.fa, o.v = 1)
      [] o.op = "bindProps"     ->
            bindProps(s, o.a, o.b, o.fv, o.fa, o.v = 1)
      [] o.op = "_bindListProps" ->
            _bindListProps(s, o.a, o.b, o.fa, o.v = 1)
      [] o.op = "insert"        -> PVLInsert(s, o.a, o.b, o.v)
      [] o.op = "delitem"       -> PVLDelItem(s, o.a, o.b)
      [] o.op = "delslice"      -> PVLDelSlice(s, o.a, o.v)
      [] o.op = "extendFrom"    ->
            PVLExtend(s, o.a, SubSeq(ListVal(s, o.b), o.v + 1,
                                     Len(s.items[o.b])))
      [] o.op = "extend"        -> PVLExtend(s, o.a, <<o.b, o.v>>)
      [] o.op = "reorder"       ->
            PVLReorder(s, o.a, PermOf(Len(s.items[o.a]), o.v))

\* Run after the first micro-operation of td returned r.
RunRest(r, td, inline) ==
    IF r.s.exc # "none" THEN [s |-> r.s, todo |-> <<>>]
    ELSE Run(r.s, r.more \o Tail(td), inline)

Run(s, td, inline) ==
    IF td = <<>> THEN [s |-> s, todo |-> <<>>]
    ELSE IF ~inline /\ ~s.calling /\ s.queue # <<>> THEN [s |-> s, todo |-> td]
    ELSE RunRest(Exec1(s, Head(td), inline), td, inline)

\* ---------------------------------------------------------------- actions
\* The item containers that something refers to: a list, or the Bidict of
\* a pair of lists.  boundPropVals and boundAttPropVals are
\* WeakValueDictionaries and keep nothing alive.
Live(s) ==
    UNION {Range(s.items[l]) : l \in DOMAIN s.items} \cup
    UNION {DOMAIN s.maps[p] \cup Range(s.maps[p]) : p \in DOMAIN s.maps}

\* An item container nothing refers to is destroyed, and with it the
\* entries that it had in the weak dictionaries of others.
FreeAttrs == [clamped |-> 0, enabled |-> 1, maxval |-> 0]
Collect(s) ==
    LET dead == {c \in DOMAIN s.kind : s.kind[c] = "item" /\ c \notin Live(s)}
        D    == DOMAIN s.kind
    IN [s EXCEPT
          !.kind     = [c \in D |-> IF c \in dead THEN "free" ELSE @[c]],
          !.val      = [c \in D |-> IF c \in dead THEN 0 ELSE @[c]],
          !.valid    = [c \in D |-> IF c \in dead THEN TRUE ELSE @[c]],
          !.attrs    = [c \in D |-> IF c \in dead THEN FreeAttrs ELSE @[c]],
          !.allowInv = [c \in D |-> IF c \in dead THEN TRUE ELSE @[c]],
          !.notif    = [c \in D |-> IF c \in dead THEN TRUE ELSE @[c]],
          !.syncing  = [c \in D |-> IF c \in dead THEN FALSE ELSE @[c]],
          !.bv       = [c \in D |-> IF c \in dead THEN {} ELSE @[c] \ dead],
          !.ba       = [c \in D |-> IF c \in dead THEN {} ELSE @[c] \ dead]]

\* The variables take the program state s.
Store(s) ==
    /\ val' = s.val /\ valid' = s.valid
    /\ attrs' = s.attrs /\ allowInv' = s.allowInv /\ notif' = s.notif
    /\ syncing' = s.syncing /\ bv' = s.bv /\ ba' = s.ba
    /\ queue' = s.queue /\ queued' = s.queued /\ kind' = s.kind
    /\ items' = s.items /\ maps' = s.maps
    /\ calls' = s.calls /\ midSync' = s.midSync

Commit(s0) == Store(Collect(s0))

\* The variables take the state in which Run stopped: r.todo is what is
\* left to do once the CallQueue has been drained.
Finish(r) ==
    /\ Commit(r.s)
    /\ todo' = r.todo
    /\ calling' = (r.s.queue # <<>>)
    /\ exc' = r.s.exc

SnapOf(s) == [val |-> s.val, attrs |-> s.attrs, allowInv |-> s.allowInv,
              notif |-> s.notif, bv |-> s.bv, ba |-> s.ba, items |-> s.items,
              maps |-> s.maps]
Snapshot == [val |-> val, attrs |-> attrs, allowInv |-> allowInv,
             notif |-> notif, bv |-> bv, ba |-> ba, items |-> items,
             maps |-> maps]

Idle == ~calling /\ todo = <<>>

\* A call made by application code while nothing else is running.
Begin(o) ==
    /\ Idle
    /\ lastOp = NoOp
    /\ Finish(Run([Cur EXCEPT !.calls = [c \in DOMAIN calls |-> 0],
                                !.midSync = FALSE], <<o>>, FALSE))
    /\ lastOp' = o
    /\ nested' = 0
    /\ UNCHANGED <<qvars, hvars, ret, ptype, hasL, ltype, skipDup, pre>>

\* host.p = x
Write(c, x) ==
    /\ Begin(MkOp("descSet", c, c, "", x, FALSE, FALSE))
    /\ UNCHANGED unb

\* my.bindProps(p, other, bindval=fv, bindatt=fa)
Bind(my, other, fv, fa) ==
    /\ Begin(MkOp("bindProps", my, other, "", 0, fv, fa))
    /\ UNCHANGED unb

\* my.unbindProps(p, other, bindval=fv, bindatt=fa)
Unbind(my, other, fv, fa) ==
    /\ Begin(MkOp("bindProps", my, other, "", 1, fv, fa))
    /\ UNCHANGED unb

\* my.bindProps(p, other) with the default flags, remembering that the pair
\* is bound again.
BindU(my, other) ==
    /\ Begin(MkOp("bindProps", my, other, "", 0, TRUE, TRUE))
    /\ unb' = IF exc' = "none" THEN unb \ {{my, other}} ELSE unb

\* my.unbindProps(p, other) with the default flags, remembering the pair if
\* the call returned normally.
UnbindU(my, other) ==
    /\ Begin(MkOp("bindProps", my, other, "", 1, TRUE, TRUE))
    /\ unb' = IF exc' = "none" THEN unb \cup {{my, other}} ELSE unb

\* CallQueue._call: one turn of the loop, with a listener that only looks.
CallListener ==
    /\ calling
    /\ queue # <<>>
    /\ Commit([Pop(Cur) EXCEPT !.calls[Head(queue).fn] = @ + 1])
    /\ UNCHANGED <<qvars, hvars, ret, ptype, hasL, ltype, skipDup, calling, todo, exc, lastOp, pre, nested,
                   unb>>

\* CallQueue._call: one turn of the loop, with a listener that assigns x to
\* the property of d.  An exception of the listener is caught and logged.
CallListenerWrite(d, x) ==
    /\ calling
    /\ queue # <<>>
    /\ nested < MaxNested
    /\ Commit([Run([Pop(Cur) EXCEPT !.calls[Head(queue).fn] = @ + 1],
                    <<MkOp("descSet", d, d, "", x, FALSE, FALSE)>>,
                    FALSE).s EXCEPT !.exc = "none"])
    /\ nested' = nested + 1
    /\ UNCHANGED <<qvars, hvars, ret, ptype, hasL, ltype, skipDup, calling, todo, exc, lastOp, pre, unb>>

\* CallQueue._call finds the queue empty and returns; the operation that
\* started the drain goes on.
Return ==
    /\ calling
    /\ queue = <<>>
    /\ Finish(Run([Cur EXCEPT !.calling = FALSE], todo, FALSE))
    /\ UNCHANGED <<qvars, hvars, ret, ptype, hasL, ltype, skipDup, lastOp, pre, nested, unb>>

\* The call has returned and its caller has looked at the outcome: what was
\* recorded about the call is dropped.
Forget ==
    /\ Idle
    /\ lastOp # NoOp
    /\ lastOp' = NoOp
    /\ pre' = Snapshot
    /\ exc' = "none"
    /\ calls' = [c \in DOMAIN calls |-> 0]
    /\ midSync' = FALSE
    /\ nested' = 0
    /\ ret' = <<>>
    /\ UNCHANGED <<qvars, hvars, ptype, kind, items, maps, hasL, ltype, val, valid, attrs, allowInv, notif, syncing,
                   bv, ba, queue, queued, calling, skipDup, todo, unb>>

\* Flags (bindval, bindatt) with which bindProps / unbindProps are called.
Flags == {<<TRUE, TRUE>>, <<TRUE, FALSE>>, <<FALSE, TRUE>>}

\* The attributes a descriptor declared as Int(default=0, maxval=m,
\* clamped=cl) gives the container of each instance (PropertyBase.__init__
\* adds enabled=True).
Constraints(m, cl) == [clamped |-> cl, enabled |-> 1, maxval |-> m]

\* The descriptors declared on the host classes: the type of each, which is
\* declared allowInvalid=False, and the constraints of each.
Declared ==
    {[ptype  |-> [c \in PVs |-> "Int"], strict |-> {},
      attrs  |-> [c \in PVs |-> Constraints(MaxValue, 0)]],
     [ptype  |-> [c \in PVs |-> "Int"], strict |-> {},
      attrs  |-> [c \in PVs |->
                    IF c = NumPV THEN Constraints(MaxValue - 1, 1)
                    ELSE Constraints(MaxValue, 0)]],
     [ptype  |-> [c \in PVs |-> IF c = NumPV THEN "Real" ELSE "Int"],
      strict |-> {1},
      attrs  |-> [c \in PVs |->
                    IF c = 1 THEN Constraints(MaxValue - 1, 0)
                    ELSE Constraints(MaxValue, 0)]]}

\* The state after construction of NumPV hosts with one property each.
InitWith(D, sd) ==
    /\ \E d \in D :
          /\ ptype = d.ptype
          /\ allowInv = [c \in PVs |-> c \notin d.strict]
          /\ attrs = d.attrs
    /\ kind = [c \in PVs |-> "scalar"]
    /\ items = [c \in PVs |-> <<>>]
    /\ maps = [p \in {} |-> <<>>]
    /\ hasL = PVs
    /\ ltype = [c \in {} |-> <<>>]
    /\ val = [c \in PVs |-> 0]
    /\ valid = [c \in PVs |-> TRUE]
    /\ notif = [c \in PVs |-> TRUE]
    /\ syncing = [c \in PVs |-> FALSE]
    /\ bv = [c \in PVs |-> {}]
    /\ ba = [c \in PVs |-> {}]
    /\ queue = <<>>
    /\ queued = {}
    /\ calling = FALSE
    /\ skipDup = sd
    /\ todo = <<>>
    /\ exc = "none"
    /\ lastOp = NoOp
    /\ pre = Snapshot
    /\ calls = [c \in PVs |-> 0]
    /\ midSync = FALSE
    /\ nested = 0
    /\ unb = {}
    /\ NoCalls
    /\ NoClasses

\* The properties share one CallQueue, created with skipDuplicates=True.
Init == InitWith(Declared, TRUE)

\* A CallQueue of its own, created with or without skipDuplicates.
InitQ == \E sd \in BOOLEAN : InitWith({CHOOSE d \in Declared : TRUE}, sd)
SpecQ == InitQ /\ [][NextQ]_vars

Next ==
    \/ \E c \in PVs, x \in Values : Write(c, x)
    \/ \E a, b \in PVs, f \in Flags : a # b /\ Bind(a, b, f[1], f[2])
    \/ \E a, b \in PVs, f \in Flags : a # b /\ Unbind(a, b, f[1], f[2])
    \/ CallListener
    \/ Return
    \/ Forget

NextR ==
    \/ Next
    \/ \E d \in PVs, x \in Values : CallListenerWrite(d, x)

Spec == Init /\ [][Next]_vars

\* The same program with listeners that write to properties.
SpecR == Init /\ [][NextR]_vars

\* The program binding and unbinding with the default flags only, with the
\* unbound pairs remembered.
NextU ==
    \/ \E c \in PVs, x \in Values : Write(c, x)
    \/ \E a, b \in PVs : a # b /\ BindU(a, b)
    \/ \E a, b \in PVs : a # b /\ UnbindU(a, b)
    \/ CallListener
    \/ Return
    \/ Forget

SpecU == Init /\ [][NextU]_vars

\* PropertyBase.enable: host.enableProperty(p)
Enable(c) ==
    /\ Begin(MkOp("setAttribute", c, c, "enabled", 1, FALSE, FALSE))
    /\ UNCHANGED unb

\* PropertyBase.disable: host.disableProperty(p)
Disable(c) ==
    /\ Begin(MkOp("setAttribute", c, c, "enabled", 0, FALSE, FALSE))
    /\ UNCHANGED unb

\* The program enabling and disabling properties, and binding and unbinding
\* them with the default flags.
NextD ==
    \/ \E c \in PVs, x \in Values : Write(c, x)
    \/ \E c \in PVs : Enable(c)
    \/ \E c \in PVs : Disable(c)
    \/ \E a, b \in PVs : a # b /\ Bind(a, b, TRUE, TRUE)
    \/ \E a, b \in PVs : a # b /\ Unbind(a, b, TRUE, TRUE)
    \/ CallListener
    \/ Return
    \/ Forget

SpecD == Init /\ [][NextD]_vars

\* ------------------------------------------------- the hosts with lists
\* The item containers in the order of the lists that hold them, then those
\* held by a Bidict only.
RECURSIVE AllItems(_, _)
AllItems(s, l) ==
    IF l > NumList THEN <<>> ELSE s.items[l] \o AllItems(s, l + 1)
CanonSeq(s) ==
    AllItems(s, 1) \o SetToSeq(Live(s) \ Range(AllItems(s, 1)))

\* The identity of an object is its address, which carries no information:
\* the same program state with the item containers numbered in the order of
\* CanonSeq.
Renumber(s) ==
    LET q      == CanonSeq(s)
        D      == DOMAIN s.kind
        new(o) == IF o \in Lists THEN o ELSE NumList + IndexOf(q, o) + 1
        old(n) == IF n \in Lists THEN n
                  ELSE IF n - NumList <= Len(q) THEN q[n - NumList]
                  ELSE 0
        F(f, blank) == [n \in D |-> IF old(n) = 0 THEN blank ELSE f[old(n)]]
        G(f) == [n \in D |-> IF old(n) = 0 THEN {}
                             ELSE {new(x) : x \in f[old(n)]}]
    IN [s EXCEPT
          !.kind     = F(s.kind, "free"),
          !.val      = F(s.val, 0),
          !.valid    = F(s.valid, TRUE),
          !.attrs    = F(s.attrs, FreeAttrs),
          !.allowInv = F(s.allowInv, TRUE),
          !.notif    = F(s.notif, TRUE),
          !.syncing  = F(s.syncing, FALSE),
          !.bv       = G(s.bv),
          !.ba       = G(s.ba),
          !.items    = [n \in D |-> [i \in 1..Len(s.items[n]) |->
                                        new(s.items[n][i])]],
          !.maps     = [p \in DOMAIN s.maps |->
                           [k \in {new(x) : x \in DOMAIN s.maps[p]} |->
                               new(s.maps[p][old(k)])]]]

\* In the snapshot (or state) h the Bidict of the lists a and b pairs the
\* items of a and b that are at the same position, and holds nothing else.
PairedIn(h, a, b) ==
    /\ {a, b} \in DOMAIN h.maps
    /\ Len(h.items[a]) = Len(h.items[b])
    /\ DOMAIN h.maps[{a, b}] = Range(h.items[a]) \cup Range(h.items[b])
    /\ \A i \in 1..Len(h.items[a]) :
          /\ h.maps[{a, b}][h.items[a][i]] = h.items[b][i]
          /\ h.maps[{a, b}][h.items[b][i]] = h.items[a][i]
Paired(a, b) == PairedIn(Snapshot, a, b)

\* Forget on the hosts with lists.  Hosts whose list operation raised, or
\* left two bound lists that are not paired position by position, are not
\* used again.
ForgetL ==
    /\ Idle
    /\ lastOp # NoOp
    /\ exc = "none"
    /\ \A a, b \in Lists : {a, b} \in DOMAIN maps => Paired(a, b)
    /\ lastOp' = NoOp
    /\ LET s == Renumber(Cur)
       IN /\ Commit([s EXCEPT !.calls = [c \in DOMAIN calls |-> 0],
                              !.midSync = FALSE])
          /\ pre' = SnapOf(s)
    /\ exc' = "none"
    /\ nested' = 0
    /\ UNCHANGED <<qvars, hvars, ret, ptype, hasL, ltype, calling, skipDup, todo, unb>>

\* host.l.insert(i, x)
ListInsert(l, i, x) ==
    /\ Len(items[l]) < MaxLen
    /\ i <= Len(items[l])
    /\ Begin(MkOp("insert", l, i, "", x, FALSE, FALSE))
    /\ exc' # "NoRoom"
    /\ UNCHANGED unb

\* del host.l[i]
ListDelete(l, i) ==
    /\ i < Len(items[l])
    /\ Begin(MkOp("delitem", l, i, "", 0, FALSE, FALSE))
    /\ exc' # "NoRoom"
    /\ UNCHANGED unb

\* host.l.reorder(p), p a permutation other than the identity
ListReorder(l, p) ==
    /\ p # Identity(Len(items[l]))
    /\ Begin(MkOp("reorder", l, l, "", PermCode(p, 1), FALSE, FALSE))
    /\ exc' # "NoRoom"
    /\ UNCHANGED unb

\* host.l.extend([x, y])
ListExtend(l, x, y) ==
    /\ Len(items[l]) + 2 <= MaxLen
    /\ Begin(MkOp("extend", l, x, "", y, FALSE, FALSE))
    /\ exc' # "NoRoom"
    /\ UNCHANGED unb

\* my.bindProps(l, other, bindatt=fa)
ListBind(my, other, fa) ==
    /\ Begin(MkOp("bindProps", my, other, "", 0, TRUE, fa))
    /\ exc' # "NoRoom"
    /\ UNCHANGED unb

\* The List descriptors declared on the host classes: the attributes of
\* the list type of each (List(Int(maxval=m, clamped=cl))).
DeclaredL ==
    {[l \in Lists |-> Constraints(MaxValue, 0)],
     [l \in Lists |-> IF l = NumList THEN Constraints(MaxValue - 1, 1)
                      ELSE Constraints(MaxValue, 0)]}

\* The state after construction of NumList hosts with one List property
\* each (default=[]); listeners are registered on the containers of h.
InitLists(h) ==
    /\ \E d \in DeclaredL :
          ltype = [l \in Lists |-> [attrs |-> d[l], allowInv |-> TRUE]]
    /\ ptype = [c \in Objs |-> "List"]
    /\ kind = [c \in Objs |-> IF c \in Lists THEN "list" ELSE "free"]
    /\ items = [c \in Objs |-> <<>>]
    /\ maps = [p \in {} |-> <<>>]
    /\ hasL = h
    /\ val = [c \in Objs |-> 0]
    /\ valid = [c \in Objs |-> TRUE]
    /\ attrs = [c \in Objs |-> IF c \in Lists THEN [enabled |-> 1]
                               ELSE FreeAttrs]
    /\ allowInv = [c \in Objs |-> TRUE]
    /\ notif = [c \in Objs |-> TRUE]
    /\ syncing = [c \in Objs |-> FALSE]
    /\ bv = [c \in Objs |-> {}]
    /\ ba = [c \in Objs |-> {}]
    /\ queue = <<>>
    /\ queued = {}
    /\ calling = FALSE
    /\ skipDup = TRUE
    /\ todo = <<>>
    /\ exc = "none"
    /\ lastOp = NoOp
    /\ pre = Snapshot
    /\ calls = [c \in Objs |-> 0]
    /\ midSync = FALSE
    /\ nested = 0
    /\ unb = {}
    /\ NoCalls
    /\ NoClasses

NextL ==
    \/ \E l \in Lists, i \in 0..MaxLen, x \in Values : ListInsert(l, i, x)
    \/ \E l \in Lists, x, y \in Values : ListExtend(l, x, y)
    \/ \E l \in Lists, i \in 0..MaxLen : ListDelete(l, i)
    \/ \E l \in Lists : \E p \in Perms(Len(items[l])) : ListReorder(l, p)
    \/ \E a, b \in Lists, fa \in BOOLEAN : a # b /\ ListBind(a, b, fa)
    \/ CallListener
    \/ Return
    \/ ForgetL

\* Listeners on the lists only.
InitL == InitLists(Lists)
SpecL == InitL /\ [][NextL]_vars

\* Listeners on the lists and on every item of them (addListener on each
\* item container as soon as it exists).
InitN == InitLists(Objs)
SpecN == InitN /\ [][NextL]_vars

\* ------------------------------------------------------------------ isBound
\* `pv in d` for a dictionary d whose keys are the id()s of containers: a key
\* k matches when pv == k, and PropertyValue.__eq__ compares the value held
\* by pv with k.
InDict(pv, d) == \E k \in {Id(c) : c \in d} : equalityFunc(val[pv], k)

\* isBound
isBound(my, other) == InDict(other, bv[my]) /\ InDict(my, bv[other])

\* ------------------------------------------------- what the claims speak of
\* The containers connected to those of S by the edges of g.
RECURSIVE ReachFrom(_, _)
ReachFrom(g, S) ==
    LET n == S \cup UNION {g[c] : c \in S}
    IN IF n = S THEN S ELSE ReachFrom(g, n)

Connected(g, c) == ReachFrom(g, {c})

\* The last top-level call has returned (normally or not).
Done == Idle /\ lastOp # NoOp

WriteDone == Done /\ lastOp.op = "descSet" /\ exc = "none"
BindDone == Done /\ lastOp.op = "bindProps" /\ lastOp.v = 0
UnbindDone == Done /\ lastOp.op = "bindProps" /\ lastOp.v = 1

\* ----------------------------------------------------------------- claims
\* x passes the validation of container c.
ValidOn(c, x) == validateFunc(attrs[c], x)

\* C1 as the spec states it: while A.p and B.p are value-bound, every
\* completed write A.p = x of a value x that is valid on both leaves A.p = x
\* and B.p = x (whichever side of the binding is written).
C1_AnyWrite ==
    WriteDone =>
        \A b \in pre.bv[lastOp.a] :
            (ValidOn(lastOp.a, lastOp.v) /\ ValidOn(b, lastOp.v))
            => val[lastOp.a] = lastOp.v /\ val[b] = lastOp.v

\* C1: while A.p and B.p are value-bound, every completed write A.p = x that
\* changes the value of A.p, x being valid on both, leaves A.p = x and
\* B.p = x (whichever side of the binding is written).
C1_ChangingWrite ==
    (WriteDone /\ pre.val[lastOp.a] # lastOp.v) =>
        \A b \in pre.bv[lastOp.a] :
            (ValidOn(lastOp.a, lastOp.v) /\ ValidOn(b, lastOp.v))
            => val[lastOp.a] = lastOp.v /\ val[b] = lastOp.v

C1_Witness ==
    /\ WriteDone
    /\ pre.val[lastOp.a] # lastOp.v
    /\ \E b \in pre.bv[lastOp.a] :
          /\ ValidOn(lastOp.a, lastOp.v)
          /\ ValidOn(b, lastOp.v)
          /\ pre.val[b] # lastOp.v
          /\ val[b] = lastOp.v

\* A listener is about to be called: the CallQueue is draining and the call
\* at its head is the next one made.
ListenerNext == calling /\ queue # <<>>

\* No _sync loop is under way: no listener was called from inside one, and no
\* container is marked as being synchronised.
NoSyncUnderWay == ~midSync /\ \A c \in DOMAIN syncing : ~syncing[c]

\* C2 as the spec states it: when a listener is called as the result of a
\* write to S, every container bound to S, directly or not, holds the value
\* of S, and no _sync loop is under way.
C2_AllEqual ==
    ListenerNext =>
        /\ NoSyncUnderWay
        /\ \A c \in Connected(bv, Head(queue).src) :
              val[c] = val[Head(queue).src]

\* C2: when a listener is called as the result of a write to S, every
\* container bound to S, directly or not, holds the value of S or what its
\* own cast makes of that value, and no _sync loop is under way.
C2_Converged ==
    ListenerNext =>
        /\ NoSyncUnderWay
        /\ \A c \in Connected(bv, Head(queue).src) :
              \/ val[c] = val[Head(queue).src]
              \/ val[c] = castFunc(attrs[c], val[Head(queue).src])

C2_Witness ==
    /\ ListenerNext
    /\ lastOp.op = "descSet"
    /\ Head(queue).fn # Head(queue).src
    /\ Cardinality(Connected(bv, Head(queue).src)) = 3
    /\ pre.val[Head(queue).fn] # val[Head(queue).fn]
    /\ \A c \in Connected(bv, Head(queue).src) : val[c] = val[Head(queue).src]

\* The three containers bound in a cycle A-B, B-C, C-A that c is part of, if
\* there is one: the whole component of c.
InCycle(g, c) ==
    /\ Cardinality(Connected(g, c)) = 3
    /\ \A a \in Connected(g, c) : g[a] = Connected(g, c) \ {a}

\* _buildBPVList lists every container bound to c, directly or not, exactly
\* once and never c itself.
TraversalExact(g, c) ==
    LET l == _buildBPVList(g, c).pvs
    IN /\ \A i, j \in DOMAIN l : l[i] = l[j] => i = j
       /\ Range(l) = Connected(g, c) \ {c}

\* C3 as the spec states it: with three containers bound in a cycle, a write
\* of a new value to one of them returns with the three values equal and the
\* listener of each called exactly once; the traversal lists every bound
\* container once and never the source.
C3_AnyCycle ==
    /\ \A c \in PVs : TraversalExact(bv, c)
    /\ (WriteDone /\ InCycle(pre.bv, lastOp.a) /\ pre.val[lastOp.a] # val[lastOp.a])
       => \A c \in Connected(pre.bv, lastOp.a) :
             val[c] = val[lastOp.a] /\ calls[c] = 1

\* No cast of a container bound to c alters x.
CastKeeps(g, c, x) == \A d \in Connected(g, c) : castFunc(attrs[d], x) = x

\* C3: with three containers bound in a cycle and holding equal values, a
\* write to one of them of a new value that no cast of the three alters
\* returns with the three values equal and the listener of each called
\* exactly once; the queue of pending listener calls never holds more than
\* one call per container; the traversal lists every bound container once and
\* never the source.
C3_Cycle ==
    /\ \A c \in PVs : TraversalExact(bv, c)
    /\ Len(queue) <= Cardinality(PVs)
    /\ (/\ WriteDone
        /\ InCycle(pre.bv, lastOp.a)
        /\ pre.val[lastOp.a] # val[lastOp.a]
        /\ \A c \in Connected(pre.bv, lastOp.a) : pre.val[c] = pre.val[lastOp.a]
        /\ CastKeeps(pre.bv, lastOp.a, lastOp.v))
       => \A c \in Connected(pre.bv, lastOp.a) :
             val[c] = lastOp.v /\ calls[c] = 1

C3_Witness ==
    /\ WriteDone
    /\ InCycle(pre.bv, lastOp.a)
    /\ pre.val[lastOp.a] # val[lastOp.a]
    /\ \A c \in Connected(pre.bv, lastOp.a) : pre.val[c] = pre.val[lastOp.a]
    /\ CastKeeps(pre.bv, lastOp.a, lastOp.v)
    /\ \A c \in PVs : val[c] = lastOp.v /\ calls[c] = 1

\* unbindProps(A.p, B.p) has returned normally: no value edge and no attribute
\* edge is left between the two, on either endpoint.
EdgesRemoved ==
    (UnbindDone /\ exc = "none") =>
        /\ lastOp.b \notin bv[lastOp.a] /\ lastOp.a \notin bv[lastOp.b]
        /\ lastOp.b \notin ba[lastOp.a] /\ lastOp.a \notin ba[lastOp.b]

\* C4 as the spec states it: after unbindProps(A.p, B.p) the edges are gone
\* on both endpoints and no later write to A.p changes B.p, or vice versa.
C4_NeverAgain ==
    /\ EdgesRemoved
    /\ WriteDone => \A b \in PVs :
          {lastOp.a, b} \in unb => val[b] = pre.val[b]

\* C4: after unbindProps(A.p, B.p) the edges are gone on both endpoints, and
\* a later write to A.p changes B.p (or vice versa) only if the two are
\* still connected through bindings to other containers.
C4_Unbound ==
    /\ EdgesRemoved
    /\ WriteDone => \A b \in PVs :
          ({lastOp.a, b} \in unb /\ b \notin Connected(pre.bv, lastOp.a))
          => val[b] = pre.val[b]

C4_Witness ==
    /\ WriteDone
    /\ pre.val[lastOp.a] # val[lastOp.a]
    /\ \E b \in PVs :
          /\ {lastOp.a, b} \in unb
          /\ b \notin Connected(pre.bv, lastOp.a)
          /\ pre.val[b] = pre.val[lastOp.a]
          /\ val[b] = pre.val[b]

\* C5 as the spec states it: isBound(A.p, B.p) is true exactly when there is
\* a direct value-binding edge between the two containers.
C5_IsBoundIffEdge ==
    \A a, b \in PVs :
        a # b => (isBound(a, b) <=> (b \in bv[a] /\ a \in bv[b]))

\* C6: bindProps on two properties whose descriptors differ in type raises
\* ValueError and changes nothing: no value, attribute, flag or edge, and no
\* listener is called.
C6_TypeMismatch ==
    (BindDone /\ ptype[lastOp.a] # ptype[lastOp.b]) =>
        /\ exc = "ValueError"
        /\ Snapshot = pre
        /\ \A c \in PVs : calls[c] = 0

C6_Witness ==
    /\ BindDone
    /\ ptype[lastOp.a] # ptype[lastOp.b]
    /\ exc = "ValueError"
    /\ val[lastOp.a] # val[lastOp.b]

\* bindProps(A, p, B, q) with the default flags has returned normally.
DefaultBindDone == BindDone /\ exc = "none" /\ lastOp.fv /\ lastOp.fa

\* C7 as the spec states it: right after bindProps(A, p, B, q) the value and
\* attributes of A.p are those B.q had before, B.q is unchanged, and
\* allowInvalid of A.p is what it was.
C7_CopiesValue ==
    DefaultBindDone =>
        /\ val[lastOp.a] = pre.val[lastOp.b]
        /\ attrs[lastOp.a] = pre.attrs[lastOp.b]
        /\ val[lastOp.b] = pre.val[lastOp.b]
        /\ attrs[lastOp.b] = pre.attrs[lastOp.b]
        /\ allowInv[lastOp.a] = pre.allowInv[lastOp.a]

\* C7: right after bindProps(A, p, B, q) the attributes of A.p are those B.q
\* had before, those of B.q are unchanged and allowInvalid of A.p is what it
\* was; and when the value B.q had before is one that the cast with those
\* attributes leaves as it is, A.p holds that value (even if it is invalid
\* for A.p and A.p is declared allowInvalid=False) and B.q still holds it.
C7_CopiesCast ==
    DefaultBindDone =>
        /\ attrs[lastOp.a] = pre.attrs[lastOp.b]
        /\ attrs[lastOp.b] = pre.attrs[lastOp.b]
        /\ allowInv[lastOp.a] = pre.allowInv[lastOp.a]
        /\ castFunc(pre.attrs[lastOp.b], pre.val[lastOp.b]) = pre.val[lastOp.b]
           => /\ val[lastOp.a] = pre.val[lastOp.b]
              /\ val[lastOp.b] = pre.val[lastOp.b]

C7_Witness ==
    /\ DefaultBindDone
    /\ ~pre.allowInv[lastOp.a]
    /\ ~ValidOn(lastOp.a, val[lastOp.a])
    /\ val[lastOp.a] = pre.val[lastOp.b]
    /\ pre.val[lastOp.a] # pre.val[lastOp.b]

\* ------------------------------------------------------- claims on lists
\* The last call was bindProps on two list properties and returned normally.
ListBindDone ==
    /\ Done
    /\ lastOp.op = "bindProps" /\ lastOp.v = 0
    /\ kind[lastOp.a] = "list"
    /\ exc = "none"

\* In the snapshot (or state) h the lists a and b hold equal values at every
\* position.
SameValues(h, a, b) ==
    /\ Len(h.items[a]) = Len(h.items[b])
    /\ \A i \in 1..Len(h.items[a]) :
          h.val[h.items[a][i]] = h.val[h.items[b][i]]

ReorderDone == Done /\ lastOp.op = "reorder" /\ exc = "none"

\* C9: after a reorder of a list that was bound to the list b, paired with
\* it position by position and equal to it in value, b holds the values of
\* the reordered list position by position, b is made of the item
\* containers it was made of, and the bijection is what it was.
C9_ReorderFollows ==
    \A b \in Lists :
        ReorderDone /\ b \in pre.bv[lastOp.a]
        /\ PairedIn(pre, lastOp.a, b) /\ SameValues(pre, lastOp.a, b) =>
            /\ SameValues(Snapshot, lastOp.a, b)
            /\ Range(items[b]) = Range(pre.items[b])
            /\ maps[{lastOp.a, b}] = pre.maps[{lastOp.a, b}]

\* The last call was insert or extend and returned normally.
InsertDone == Done /\ lastOp.op \in {"insert", "extend"} /\ exc = "none"

\* The item container c did not exist when the last call started.
IsNew(c) ==
    \A l \in Lists : c \notin Range(pre.items[l])

\* C10 as the spec states it: after an insertion into a list that was bound
\* to the list b and paired with it, b has a new item at the position of
\* every new item of the list, with the same value and paired with it, and
\* the two lists are equal in length and in value at every position.
C10_SameValue ==
    \A b \in Lists :
        InsertDone /\ b \in pre.bv[lastOp.a] /\ PairedIn(pre, lastOp.a, b) =>
            /\ Len(items[lastOp.a]) = Len(items[b])
            /\ \A i \in 1..Len(items[b]) :
                  IsNew(items[lastOp.a][i]) =>
                      /\ IsNew(items[b][i])
                      /\ maps[{lastOp.a, b}][items[lastOp.a][i]] = items[b][i]
                      /\ val[items[b][i]] = val[items[lastOp.a][i]]
            /\ SameValues(Snapshot, lastOp.a, b)

\* C10: after an insertion into a list that was bound to the list b and
\* paired with it position by position, the two lists are again paired
\* position by position; at the position of every new item of the list, b
\* has a new item that holds the value of that item as the item type of b
\* casts it; the items that were there are the same containers with the
\* same values; and if the lists were equal in value and the cast kept
\* every inserted value, they are equal in value.
C10_CastValue ==
    \A b \in Lists :
        InsertDone /\ b \in pre.bv[lastOp.a] /\ PairedIn(pre, lastOp.a, b) =>
            /\ Paired(lastOp.a, b)
            /\ \A i \in 1..Len(items[b]) :
                  IF IsNew(items[lastOp.a][i])
                  THEN /\ IsNew(items[b][i])
                       /\ val[items[b][i]] =
                             castFunc(ltype[b].attrs, val[items[lastOp.a][i]])
                  ELSE /\ ~IsNew(items[b][i])
                       /\ val[items[b][i]] = pre.val[items[b][i]]
                       /\ val[items[lastOp.a][i]] =
                             pre.val[items[lastOp.a][i]]
            /\ (/\ SameValues(pre, lastOp.a, b)
                /\ \A i \in 1..Len(items[b]) :
                      IsNew(items[lastOp.a][i]) =>
                          castFunc(ltype[b].attrs, val[items[lastOp.a][i]])
                              = val[items[lastOp.a][i]])
               => SameValues(Snapshot, lastOp.a, b)

\* Two items were appended to a list bound to a list of clamped items, which
\* got two new items, one of them holding a clipped value.
C10_Witness ==
    \E b \in Lists :
        /\ InsertDone /\ lastOp.op = "extend"
        /\ b \in pre.bv[lastOp.a] /\ PairedIn(pre, lastOp.a, b)
        /\ Len(items[b]) = Len(pre.items[b]) + 2
        /\ Paired(lastOp.a, b)
        /\ \E i \in 1..Len(items[b]) :
              /\ IsNew(items[b][i])
              /\ val[items[b][i]] # val[items[lastOp.a][i]]

\* The last call was del l[i] and returned normally.
DeleteDone == Done /\ lastOp.op = "delitem" /\ exc = "none"

\* C11: after the removal of an item from a list that was bound to the list
\* b, paired with it position by position and equal to it in value, b is
\* made of exactly those of its items whose paired item is still in the
\* list, in the order they had; the bijection pairs the two lists position
\* by position and holds nothing else; and the two lists are equal in
\* length and in value at every position, also when several items hold
\* equal values.
C11_DeleteFollows ==
    \A b \in Lists :
        DeleteDone /\ b \in pre.bv[lastOp.a]
        /\ PairedIn(pre, lastOp.a, b) /\ SameValues(pre, lastOp.a, b) =>
            /\ items[b] =
                  SelectSeq(pre.items[b],
                            LAMBDA c : pre.maps[{lastOp.a, b}][c]
                                           \in Range(items[lastOp.a]))
            /\ Paired(lastOp.a, b)
            /\ SameValues(Snapshot, lastOp.a, b)

\* C12: bindProps on two list properties calls the listeners of the list it
\* was called on exactly once, and calls the listeners of an item that this
\* list already had once if the copy changed the value of the item, and not
\* at all if the item already held the value of its counterpart.
C12_NotifyChanged ==
    ListBindDone =>
        /\ calls[lastOp.a] = 1
        /\ \A c \in Range(items[lastOp.a]) \cap Range(pre.items[lastOp.a]) :
              calls[c] = IF val[c] # pre.val[c] THEN 1 ELSE 0

\* ------------------------------------------------------- claims on the CallQueue
\* The entries enqueued since the CallQueue was last idle, in the order of
\* their pushes.
Accepted == SelectSeq(hist.attempts, LAMBDA t : t.accepted)
Pushed == [i \in DOMAIN Accepted |-> Accepted[i].e]

\* C13: the functions invoked so far are the first entries enqueued, in the
\* order in which they were enqueued, whether call or callAll enqueued them;
\* the functions handed to callAll are pushed in the order of the batch, and
\* no function is invoked while a callAll has yet to return from its pushes.
C13_Fifo ==
    /\ Len(hist.invoked) <= Len(Pushed)
    /\ \A i \in DOMAIN hist.invoked : hist.invoked[i] = Pushed[i]
    /\ \A i \in DOMAIN hist.attempts : hist.attempts[i].e = hist.given[i]
    /\ \A i \in DOMAIN stack :
          stack[i].k = "callAll" => Len(hist.invoked) = stack[i].n

\* A call and a callAll batch of two different functions have been drained.
C13_Witness ==
    /\ stack = <<>>
    /\ Len(hist.invoked) >= 3
    /\ \E i, j \in DOMAIN hist.attempts :
          /\ i < j
          /\ hist.attempts[i].batch > 0
          /\ hist.attempts[j].batch = hist.attempts[i].batch
          /\ hist.attempts[i].e.fn # hist.attempts[j].e.fn
          /\ hist.attempts[i].accepted /\ hist.attempts[j].accepted
    /\ \E i \in DOMAIN hist.attempts :
          hist.attempts[i].batch = 0 /\ hist.attempts[i].accepted

\* C14: a call or callAll made while a queued function is executing only
\* enqueues: the step of call starts no call and invokes nothing, nothing is
\* invoked until callAll has returned, and a queued function is started only
\* when no queued function is executing.
C14_NotReentrant ==
    [][/\ Running("cb") /\ hist'.attempts # hist.attempts =>
              stack' = stack /\ hist'.invoked = hist.invoked
       /\ hist'.invoked # hist.invoked =>
              \A i \in DOMAIN stack : stack[i].k # "cb"]_vars

\* A queued function is executing and the entry it enqueued is waiting.
C14_Witness ==
    /\ Running("cb")
    /\ queue # <<>>
    /\ \E i \in DOMAIN hist.attempts :
          ~hist.attempts[i].top /\ hist.attempts[i].accepted

\* C15: when no call of call, callAll or a queued function is under way, the
\* queue is empty and every entry enqueued, by application code or by a
\* queued function at any depth, has been invoked.
C15_DrainedOnReturn ==
    stack = <<>> => queue = <<>> /\ ~calling /\ hist.invoked = Pushed

\* The drain has returned after invoking a function that was enqueued by a
\* function that was itself enqueued by a queued function.
C15_Witness ==
    /\ stack = <<>>
    /\ \E i \in DOMAIN hist.invoked : hist.invoked[i].src = 2

\* C16: no exception of a queued function reaches the caller of call or
\* callAll, and once that caller has its answer every entry enqueued after
\* the function that raised has been invoked, in order.
C16_ExceptionCaught ==
    /\ exc = "none"
    /\ \A i \in DOMAIN hist.outcome :
          hist.outcome[i] = "raised" /\ stack = <<>> =>
              \A j \in DOMAIN Pushed :
                  j > i => j \in DOMAIN hist.invoked /\ hist.invoked[j] = Pushed[j]

\* The first function invoked raised; a function enqueued after that, by a
\* function that a queued function had enqueued, was still invoked.
C16_Witness ==
    /\ stack = <<>>
    /\ Len(hist.outcome) >= 3
    /\ hist.outcome[1] = "raised"
    /\ hist.invoked[3].src = 2

\* callAll was called by application code, on an idle CallQueue, with two
\* entries of the same key, and nothing else was enqueued.
TwiceBeforeDrain ==
    /\ Len(hist.attempts) = 2
    /\ hist.attempts[1].top /\ hist.attempts[2].top
    /\ hist.attempts[1].batch > 0
    /\ hist.attempts[2].batch = hist.attempts[1].batch
    /\ Key(hist.attempts[1].e) = Key(hist.attempts[2].e)

\* C17: with skipDuplicates a push is dropped exactly when an entry of the
\* same key (function and str(args)) is pending, and the queue holds no two
\* entries of the same key; without it every push is enqueued.  The same
\* function and arguments enqueued twice before the drain starts are invoked
\* once with skipDuplicates and twice without.
C17_SkipDuplicates ==
    /\ skipDup =>
          \A i, j \in DOMAIN queue : Key(queue[i]) = Key(queue[j]) => i = j
    /\ \A i \in DOMAIN hist.attempts :
          hist.attempts[i].accepted <=> ~(skipDup /\ hist.attempts[i].pending)
    /\ stack = <<>> /\ TwiceBeforeDrain =>
          Len(hist.invoked) = IF skipDup THEN 1 ELSE 2

\* With skipDuplicates, two entries of one function whose arguments are
\* different objects with the same str() were handed to callAll and one
\* function was invoked.
C17_Witness ==
    /\ skipDup
    /\ stack = <<>>
    /\ TwiceBeforeDrain
    /\ hist.attempts[1].e.val # hist.attempts[2].e.val
    /\ Len(hist.invoked) = 1

\* ------------------------------------------------------- claims on descriptors
\* C18: an assignment through the descriptor to a property whose enabled
\* attribute is false raises DisabledError and changes nothing: not the
\* value, the validity, the attributes or the bindings of any container, and
\* no listener is called or queued.  enable() leaves the attribute true, and
\* an assignment to a property whose enabled attribute is true does not
\* raise DisabledError: it raises ValueError or stores the cast value.
C18_Disabled ==
    [][/\ lastOp = NoOp /\ lastOp'.op = "descSet"
              /\ attrs[lastOp'.a].enabled = 0 =>
              /\ exc' = "DisabledError"
              /\ val' = val /\ valid' = valid /\ attrs' = attrs
              /\ bv' = bv /\ ba' = ba /\ notif' = notif
              /\ queue' = queue /\ ~calling' /\ todo' = <<>>
              /\ \A c \in PVs : calls'[c] = 0
       /\ lastOp = NoOp /\ lastOp'.op = "setAttribute"
              /\ lastOp'.n = "enabled" =>
              exc' = "none" /\ attrs'[lastOp'.a].enabled = lastOp'.v
       /\ lastOp = NoOp /\ lastOp'.op = "descSet"
              /\ attrs[lastOp'.a].enabled = 1 =>
              \/ exc' = "ValueError" /\ val' = val
              \/ exc' = "none"
                 /\ val'[lastOp'.a] = castFunc(attrs[lastOp'.a], lastOp'.v)]_vars

\* An assignment that would have changed the value of a disabled property
\* raised DisabledError.
C18_Witness ==
    /\ Done
    /\ lastOp.op = "descSet"
    /\ pre.attrs[lastOp.a].enabled = 0
    /\ exc = "DisabledError"
    /\ lastOp.v # val[lastOp.a]

\* ------------------------------------------------------- classes and hosts
Descs == 1..NumDesc
Names == {"p", "q"}
\* Every attribute name, private ones (with a leading underscore) included,
\* in the sorted order of dir().
Private == {"_r"}
NameSeq == <<"_r", "p", "q">>
HostPVs == 1..NumHostPV

\* PropertyBase.__init__: descriptor 1 is Int(default=0), descriptor 2 is
\* Int(default=1, clamped=True); both have maxval=MaxValue.
Default(d) == d - 1
DefaultConstraints(d) == Constraints(MaxValue, d - 1)

\* An entry of the __dict__ of a class: the descriptor d under the name n.
Item(n, d) == [n |-> n, d |-> d]

\* The class bodies application code writes: at most one descriptor under
\* each name.  The order is that of the items() of the class __dict__.
ClassBodies ==
    {<<>>} \cup {<<Item(n, d)>> : n \in Names, d \in Descs}
    \cup {b \in {<<Item(n1, d1), Item(n2, d2)>> :
                    n1 \in Names, n2 \in Names, d1 \in Descs, d2 \in Descs} :
             b[1].n # b[2].n}

\* The class bodies that may hold a private name.
AllBodies ==
    {<<>>} \cup {<<Item(n, d)>> : n \in Range(NameSeq), d \in Descs}
    \cup {b \in {<<Item(n1, d1), Item(n2, d2)>> :
                    n1 \in Range(NameSeq), n2 \in Range(NameSeq),
                    d1 \in Descs, d2 \in Descs} :
             b[1].n # b[2].n}

RECURSIVE Preorder(_, _), PreorderAll(_, _), Dedup(_, _), allAttrs(_, _),
          allAttrsOf(_, _), SetLabels(_, _, _, _), AddAll(_, _, _, _)
Preorder(cd, k) == <<k>> \o PreorderAll(cd, cd[k].bases)
PreorderAll(cd, bs) ==
    IF bs = <<>> THEN <<>>
    ELSE Preorder(cd, Head(bs)) \o PreorderAll(cd, Tail(bs))
Dedup(q, seen) ==
    IF q = <<>> THEN <<>>
    ELSE IF Head(q) \in seen THEN Dedup(Tail(q), seen)
    ELSE <<Head(q)>> \o Dedup(Tail(q), seen \cup {Head(q)})

\* cls.__mro__.  With at most NumClass classes, none with more than two
\* bases and no base listed before one of its subclasses, the C3 order is
\* the depth-first order of the bases with repetitions dropped.
Mro(cd, k) == Dedup(Preorder(cd, k), {})

\* The base lists type.__new__ accepts: existing classes, no class twice and
\* no class before one of its subclasses.
BaseLists(cd) ==
    {<<>>} \cup {<<j>> : j \in {c \in DOMAIN cd : cd[c].ok}}
    \cup {b \in {<<i, j>> : i \in DOMAIN cd, j \in DOMAIN cd} :
             /\ cd[b[1]].ok /\ cd[b[2]].ok
             /\ b[1] # b[2]
             /\ b[1] \notin Range(Mro(cd, b[2]))}

\* hasattr(cls, n), getattr(cls, n) and the property names of dir(cls), in
\* the sorted order of dir.
Own(cd, k, n) == {i \in DOMAIN cd[k].items : cd[k].items[i].n = n}
Holders(cd, k, n) == SelectSeq(Mro(cd, k), LAMBDA c : Own(cd, c, n) # {})
hasattr(cd, k, n) == Holders(cd, k, n) # <<>>
getattr(cd, k, n) ==
    cd[Head(Holders(cd, k, n))].items[CHOOSE i \in Own(cd, Head(Holders(cd, k, n)), n) : TRUE].d
dir(cd, k) == SelectSeq(NameSeq, LAMBDA n : hasattr(cd, k, n))

\* The classes, the labels, the hosts and their containers.
HS == [label |-> label, cdict |-> cdict, idict |-> idict, kind |-> kind,
       val |-> val, valid |-> valid, attrs |-> attrs, allowInv |-> allowInv,
       exc |-> "none"]
StoreHS(h) ==
    /\ label' = h.label /\ cdict' = h.cdict /\ idict' = h.idict
    /\ kind' = h.kind /\ val' = h.val /\ valid' = h.valid
    /\ attrs' = h.attrs /\ allowInv' = h.allowInv /\ exc' = h.exc

_setLabel_overwrite(h, d, k, n) ==
    [h EXCEPT !.label[d] = [c \in DOMAIN @ \cup {k} |-> IF c = k THEN n ELSE @[c]]]

\* PropertyBase._setLabel
_setLabel(h, d, k, n) ==
    IF k \in DOMAIN h.label[d] THEN [h EXCEPT !.exc = "RuntimeError"]
    ELSE [h EXCEPT !.label[d] = [c \in DOMAIN @ \cup {k} |-> IF c = k THEN n ELSE @[c]]]

\* PropertyOwner.__new__: allAttrs(cls), the items of the class and of its
\* bases, each base as often as it is reached.
allAttrs(cd, k) == cd[k].items \o allAttrsOf(cd, cd[k].bases)
allAttrsOf(cd, bs) ==
    IF bs = <<>> THEN <<>>
    ELSE allAttrs(cd, Head(bs)) \o allAttrsOf(cd, Tail(bs))

\* PropertyOwner.__new__: the loop over allAttrs(newCls), left by the first
\* exception.
SetLabels(h, k, its, i) ==
    IF i > Len(its) \/ h.exc # "none" THEN h
    ELSE SetLabels(_setLabel(h, its[i].d, k, its[i].n), k, its, i + 1)

\* The class is kept if the loop ended without an exception.
NewClass(h, k) == [h EXCEPT !.cdict[k].ok = (h.exc = "none")]

\* PropertyOwner.__new__(cls, name, bs, its)
PropertyOwner_new(h, bs, its) ==
    NewClass(SetLabels([h EXCEPT !.cdict = Append(@, [ok |-> FALSE, bases |-> bs, items |-> its])],
                       Len(h.cdict) + 1,
                       allAttrs(Append(h.cdict, [ok |-> FALSE, bases |-> bs, items |-> its]),
                                Len(h.cdict) + 1),
                       1),
             Len(h.cdict) + 1)

\* The containers no host holds.
FreePVs(h) == {c \in DOMAIN h.kind : h.kind[c] = "free"}

_makePropVal_shared(h, c, i, n, d) ==
    [h EXCEPT !.idict[i].dict =
                 [m \in DOMAIN @ \cup {n} |->
                     IF m # n THEN @[m]
                     ELSE IF \E j \in DOMAIN h.idict :
                               j # i /\ n \in DOMAIN h.idict[j].dict
                          THEN h.idict[CHOOSE j \in DOMAIN h.idict :
                                  j # i /\ n \in DOMAIN h.idict[j].dict].dict[n]
                          ELSE c],
              !.kind[c] = "scalar",
              !.val[c] = Default(d),
              !.valid[c] = TRUE,
              !.attrs[c] = DefaultConstraints(d),
              !.allowInv[c] = TRUE]

\* PropertyBase._makePropVal and the end of addProperty: a new container c
\* with the default value and the default constraints of d, stored in the
\* __dict__ of host i under n.
_makePropVal(h, c, i, n, d) ==
    [h EXCEPT !.idict[i].dict =
                 [m \in DOMAIN @ \cup {n} |-> IF m = n THEN c ELSE @[m]],
              !.kind[c] = "scalar",
              !.val[c] = Default(d),
              !.valid[c] = TRUE,
              !.attrs[c] = DefaultConstraints(d),
              !.allowInv[c] = TRUE]

\* addProperty after the class has the attribute
AddValue(h, i, n, d) ==
    IF h.exc # "none" THEN h
    ELSE _makePropVal(h, CHOOSE c \in FreePVs(h) : \A e \in FreePVs(h) : c <= e,
                      i, n, d)

\* addProperty: setattr(self.__class__, propName, propObj) and _setLabel
AddClassAttr(h, k, n, d) ==
    _setLabel([h EXCEPT !.cdict[k].items = Append(@, Item(n, d))], d, k, n)

\* HasProperties.addProperty(propName, propObj) on host i
addProperty(h, i, n, d) ==
    IF n \in DOMAIN h.idict[i].dict THEN [h EXCEPT !.exc = "RuntimeError"]
    ELSE AddValue(IF hasattr(h.cdict, h.idict[i].cls, n) THEN h
                  ELSE AddClassAttr(h, h.idict[i].cls, n, d),
                  i, n, d)

\* HasProperties.__new__: the loop over dir(instance.__class__)
AddAll(h, i, names, j) ==
    IF j > Len(names) \/ h.exc # "none" THEN h
    ELSE AddAll(addProperty(h, i, names[j],
                            getattr(h.cdict, h.idict[i].cls, names[j])),
                i, names, j + 1)

\* HasProperties.__new__(cls)
HasProperties_new(h, k) ==
    AddAll([h EXCEPT !.idict = Append(@, [cls |-> k, dict |-> <<>>,
                                          voc |-> FALSE])],
           Len(h.idict) + 1, dir(h.cdict, k), 1)

getAllProperties_private(cd, k) ==
    <<dir(cd, k), [i \in DOMAIN dir(cd, k) |-> getattr(cd, k, dir(cd, k)[i])]>>

\* The names of dir(cls) that do not begin with an underscore.
PublicNames(cd, k) == SelectSeq(dir(cd, k), LAMBDA n : n \notin Private)

\* HasProperties.getAllProperties: the names and the descriptors
getAllProperties(cd, k) ==
    <<PublicNames(cd, k),
      [i \in DOMAIN PublicNames(cd, k) |-> getattr(cd, k, PublicNames(cd, k)[i])]>>

\* HasProperties.__init__(validateOnChange=True) on the host h.__new__ has
\* made of class k.  zip(propNames, props) is unpacked as (prop, propName),
\* so prop is a name, a string, and prop.getPropVal raises AttributeError
\* for the first property; the host is then never handed to the caller and
\* h0, the state before __new__, is what is left.
HasProperties_init(h0, h, k) ==
    IF getAllProperties(h.cdict, k)[1] # <<>>
    THEN [h0 EXCEPT !.exc = "AttributeError"]
    ELSE [h EXCEPT !.idict[Len(h.idict)].voc = TRUE]

\* What a host operation leaves alone.
HostRest == <<qvars, ptype, items, maps, hasL, ltype, notif, syncing, bv, ba,
              queue, queued, calling, skipDup, todo, pre, calls, midSync,
              nested, unb, ret>>

\* class K(bs): its
DefineClass(bs, its) ==
    /\ Idle
    /\ lastOp = NoOp
    /\ Len(cdict) < NumClass
    /\ bs \in BaseLists(cdict)
    /\ StoreHS(PropertyOwner_new(HS, bs, its))
    /\ lastOp' = MkOp("class", Len(cdict) + 1, 0, "", 0, FALSE, FALSE)
    /\ UNCHANGED HostRest

\* K()
NewHost(k) ==
    /\ Idle
    /\ lastOp = NoOp
    /\ Len(idict) < NumInst
    /\ k \in DOMAIN cdict /\ cdict[k].ok
    /\ Cardinality(FreePVs(HS)) >= Len(dir(cdict, k))
    /\ StoreHS(HasProperties_new(HS, k))
    /\ lastOp' = MkOp("new", Len(idict) + 1, k, "", 0, FALSE, FALSE)
    /\ UNCHANGED HostRest

\* K(validateOnChange=True)
NewHostV(k) ==
    /\ Idle
    /\ lastOp = NoOp
    /\ Len(idict) < NumInst
    /\ k \in DOMAIN cdict /\ cdict[k].ok
    /\ Cardinality(FreePVs(HS)) >= Len(dir(cdict, k))
    /\ StoreHS(HasProperties_init(HS, HasProperties_new(HS, k), k))
    /\ lastOp' = MkOp("newV", Len(idict) + 1, k, "", 0, FALSE, FALSE)
    /\ UNCHANGED HostRest

\* K.getAllProperties()
GetAllProperties(k) ==
    /\ Idle
    /\ lastOp = NoOp
    /\ k \in DOMAIN cdict /\ cdict[k].ok
    /\ ret' = getAllProperties(cdict, k)
    /\ lastOp' = MkOp("getAllProperties", k, 0, "", 0, FALSE, FALSE)
    /\ UNCHANGED <<qvars, hvars, ptype, kind, items, maps, hasL, ltype, val,
                   valid, attrs, allowInv, notif, syncing, bv, ba, queue,
                   queued, calling, skipDup, todo, exc, pre, calls, midSync,
                   nested, unb>>

\* host.addProperty(n, d)
AddProperty(i, n, d) ==
    /\ Idle
    /\ lastOp = NoOp
    /\ i \in DOMAIN idict
    /\ FreePVs(HS) # {}
    /\ StoreHS(addProperty(HS, i, n, d))
    /\ lastOp' = MkOp("addProperty", i, d, n, 0, FALSE, FALSE)
    /\ UNCHANGED HostRest

\* PropertyBase.getPropVal of the descriptor the class of host i has under
\* n: the container in the __dict__ of the host under the label of the
\* descriptor, 0 for None.
getPropVal(i, n) ==
    IF idict[i].cls \notin DOMAIN label[getattr(cdict, idict[i].cls, n)] THEN 0
    ELSE IF label[getattr(cdict, idict[i].cls, n)][idict[i].cls]
               \notin DOMAIN idict[i].dict THEN 0
    ELSE idict[i].dict[label[getattr(cdict, idict[i].cls, n)][idict[i].cls]]

\* host.n = x, for a name under which the class of the host has a
\* descriptor.  Where the host has no container for it, getPropVal returns
\* None and __set__ raises AttributeError.
WriteHost(i, n, x) ==
    /\ i \in DOMAIN idict
    /\ hasattr(cdict, idict[i].cls, n)
    /\ IF getPropVal(i, n) = 0
       THEN /\ Idle
            /\ lastOp = NoOp
            /\ lastOp' = MkOp("descSet", 0, 0, n, x, FALSE, FALSE)
            /\ exc' = "AttributeError"
            /\ UNCHANGED <<HostRest, hvars, kind, val, valid, attrs, allowInv>>
       ELSE /\ Begin(MkOp("descSet", getPropVal(i, n), getPropVal(i, n), "", x,
                          FALSE, FALSE))
            /\ UNCHANGED unb

\* Before application code has defined a class: no container exists.
InitH ==
    /\ ptype = [c \in HostPVs |-> "Int"]
    /\ kind = [c \in HostPVs |-> "free"]
    /\ items = [c \in HostPVs |-> <<>>]
    /\ maps = [p \in {} |-> <<>>]
    /\ hasL = HostPVs
    /\ ltype = [c \in {} |-> <<>>]
    /\ val = [c \in HostPVs |-> 0]
    /\ valid = [c \in HostPVs |-> TRUE]
    /\ attrs = [c \in HostPVs |-> FreeAttrs]
    /\ allowInv = [c \in HostPVs |-> TRUE]
    /\ notif = [c \in HostPVs |-> TRUE]
    /\ syncing = [c \in HostPVs |-> FALSE]
    /\ bv = [c \in HostPVs |-> {}]
    /\ ba = [c \in HostPVs |-> {}]
    /\ queue = <<>>
    /\ queued = {}
    /\ calling = FALSE
    /\ skipDup = TRUE
    /\ todo = <<>>
    /\ exc = "none"
    /\ lastOp = NoOp
    /\ pre = Snapshot
    /\ calls = [c \in HostPVs |-> 0]
    /\ midSync = FALSE
    /\ nested = 0
    /\ unb = {}
    /\ NoCalls
    /\ NoClasses

\* Application code defining classes, constructing hosts and adding
\* properties to them.
NextK ==
    \/ \E bs \in BaseLists(cdict), its \in ClassBodies : DefineClass(bs, its)
    \/ \E k \in 1..NumClass : NewHost(k)
    \/ \E i \in 1..NumInst, n \in Names, d \in Descs : AddProperty(i, n, d)
    \/ Forget

SpecK == InitH /\ [][NextK]_vars

\* The class bodies with at most one descriptor.
SmallBodies == {b \in ClassBodies : Len(b) <= 1}

\* Application code defining classes with at most one descriptor each,
\* constructing hosts and assigning to their properties.
NextH ==
    \/ \E bs \in BaseLists(cdict), its \in SmallBodies : DefineClass(bs, its)
    \/ \E k \in 1..NumClass : NewHost(k)
    \/ \E i \in 1..NumInst, n \in Names, x \in Values : WriteHost(i, n, x)
    \/ CallListener
    \/ Return
    \/ Forget

SpecH == InitH /\ [][NextH]_vars

\* The same, with hosts constructed with validateOnChange=True as well.
NextV ==
    \/ NextH
    \/ \E k \in 1..NumClass : NewHostV(k)

SpecV == InitH /\ [][NextV]_vars

\* Application code defining classes, with private names as well, and
\* asking them for their properties.
NextG ==
    \/ \E bs \in BaseLists(cdict), its \in AllBodies : DefineClass(bs, its)
    \/ \E k \in 1..NumClass : GetAllProperties(k)
    \/ Forget

SpecG == InitH /\ [][NextG]_vars

\* ------------------------------------------------------- claims on classes and hosts
\* The step is a class statement; the step is a call of addProperty that
\* reaches _setLabel (the host has no attribute of that name and neither
\* has its class).
ClassStep == Len(cdict') > Len(cdict)
LabellingAdd ==
    /\ lastOp = NoOp /\ lastOp'.op = "addProperty"
    /\ lastOp'.n \notin DOMAIN idict[lastOp'.a].dict
    /\ ~hasattr(cdict, idict[lastOp'.a].cls, lastOp'.n)

\* Some descriptor is twice among the items.
Repeated(its) == \E i, j \in DOMAIN its : i < j /\ its[i].d = its[j].d

\* C19 (as the code has it): a descriptor carries at most one label for each
\* class.  A label, once set, never changes.  A class statement raises
\* RuntimeError exactly when a descriptor is reached twice among the
\* attributes of the class and of its bases, and otherwise labels every
\* descriptor it reaches for the new class, under its attribute name,
\* whatever labels the descriptor has for other classes.  addProperty under
\* a new name raises RuntimeError exactly when the descriptor has a label for
\* the class of the host, and otherwise labels it for that class.
C19_OneLabelPerClass ==
    [][/\ \A d \in Descs : \A k \in DOMAIN label[d] :
              k \in DOMAIN label'[d] /\ label'[d][k] = label[d][k]
       /\ ClassStep =>
              /\ exc' = "RuntimeError" <=> Repeated(allAttrs(cdict', Len(cdict')))
              /\ cdict'[Len(cdict')].ok <=> exc' = "none"
              /\ exc' = "none" =>
                    \A i \in DOMAIN allAttrs(cdict', Len(cdict')) :
                        label'[allAttrs(cdict', Len(cdict'))[i].d][Len(cdict')]
                            = allAttrs(cdict', Len(cdict'))[i].n
       /\ LabellingAdd =>
              IF idict[lastOp'.a].cls \in DOMAIN label[lastOp'.b]
              THEN exc' = "RuntimeError" /\ label' = label
              ELSE exc' = "none"
                   /\ label'[lastOp'.b][idict[lastOp'.a].cls] = lastOp'.n]_vars

\* A descriptor has labels for two classes, and addProperty of it to a host
\* under a second name for the class of the host has raised RuntimeError.
C19_Witness ==
    /\ Done
    /\ lastOp.op = "addProperty"
    /\ exc = "RuntimeError"
    /\ lastOp.n \notin DOMAIN idict[lastOp.a].dict
    /\ Cardinality(DOMAIN label[lastOp.b]) = 2
    /\ label[lastOp.b][idict[lastOp.a].cls] # lastOp.n

\* C19 (as the specification has it): a descriptor carries one label; a
\* class statement or an addProperty that would label a descriptor which has
\* a label raises an error and leaves the label as it is.
C19_OneLabel ==
    [][/\ ClassStep =>
              \A i \in DOMAIN allAttrs(cdict', Len(cdict')) :
                  label[allAttrs(cdict', Len(cdict'))[i].d] # <<>> =>
                      /\ exc' = "RuntimeError"
                      /\ label'[allAttrs(cdict', Len(cdict'))[i].d]
                             = label[allAttrs(cdict', Len(cdict'))[i].d]
       /\ LabellingAdd /\ label[lastOp'.b] # <<>> =>
              exc' = "RuntimeError" /\ label' = label]_vars

\* The step is the construction of a host; the step is an assignment to a
\* property of a host that has a container for it.
NewHostStep == lastOp = NoOp /\ lastOp'.op = "new"
WriteHostStep == lastOp = NoOp /\ lastOp'.op = "descSet" /\ lastOp'.a # 0

\* The descriptors reachable on class k.
Reachable(cd, k) == {getattr(cd, k, n) : n \in Range(dir(cd, k))}

\* C20: the construction of a host of class k raises nothing and gives the
\* host one container for every descriptor reachable on k, inherited ones
\* included, under the name of the descriptor: a container that did not
\* exist, holding the default value and the default constraints of the
\* descriptor; the containers of the other hosts are left as they are.  No
\* container belongs to two hosts, and an assignment to a property of one
\* host changes the value, validity and attributes of no container of
\* another host.
C20_HostConstruction ==
    /\ [](\A i, j \in DOMAIN idict :
             i # j => Range(idict[i].dict) \cap Range(idict[j].dict) = {})
    /\ [][/\ NewHostStep =>
                 /\ exc' = "none"
                 /\ DOMAIN idict' = DOMAIN idict \cup {lastOp'.a}
                 /\ \A i \in DOMAIN idict : idict'[i] = idict[i]
                 /\ idict'[lastOp'.a].cls = lastOp'.b
                 /\ DOMAIN idict'[lastOp'.a].dict = Range(dir(cdict, lastOp'.b))
                 /\ Cardinality(Range(idict'[lastOp'.a].dict))
                        = Cardinality(Reachable(cdict, lastOp'.b))
                 /\ \A n \in DOMAIN idict'[lastOp'.a].dict :
                        /\ kind[idict'[lastOp'.a].dict[n]] = "free"
                        /\ kind'[idict'[lastOp'.a].dict[n]] = "scalar"
                        /\ val'[idict'[lastOp'.a].dict[n]]
                               = Default(getattr(cdict, lastOp'.b, n))
                        /\ attrs'[idict'[lastOp'.a].dict[n]]
                               = DefaultConstraints(getattr(cdict, lastOp'.b, n))
                 /\ \A c \in HostPVs :
                        kind[c] # "free" =>
                            /\ kind'[c] = kind[c] /\ val'[c] = val[c]
                            /\ valid'[c] = valid[c] /\ attrs'[c] = attrs[c]
          /\ WriteHostStep =>
                 \A j \in DOMAIN idict :
                     lastOp'.a \notin Range(idict[j].dict) =>
                         \A c \in Range(idict[j].dict) :
                             /\ val'[c] = val[c] /\ valid'[c] = valid[c]
                             /\ attrs'[c] = attrs[c]]_vars

\* Two hosts of a class that inherits a descriptor from its base and has one
\* of its own; an assignment has left the inherited property of the two
\* hosts with different values.
C20_Witness ==
    /\ Done
    /\ lastOp.op = "descSet"
    /\ Len(idict) = 2
    /\ idict[1].cls = 2 /\ idict[2].cls = 2
    /\ cdict[2].bases = <<1>>
    /\ cdict[1].items # <<>> /\ cdict[2].items # <<>>
    /\ DOMAIN idict[1].dict = Names /\ DOMAIN idict[2].dict = Names
    /\ val[idict[1].dict[cdict[1].items[1].n]]
           # val[idict[2].dict[cdict[1].items[1].n]]

\* C21 (violated): the construction of a host with validateOnChange=True
\* succeeds: it raises nothing and the host exists, with validateOnChange
\* set.  (The rest of the claim, on the writes to the properties of such a
\* host, is about hosts this construction yields.)
C21_ValidateOnChange ==
    [][lastOp = NoOp /\ lastOp'.op = "newV" =>
           /\ exc' = "none"
           /\ Len(idict') = Len(idict) + 1
           /\ idict'[Len(idict')].voc]_vars

\* The last call was getAllProperties.
GetAllDone == Done /\ lastOp.op = "getAllProperties"

\* The position of a name in the sorted order of names.
Rank(n) == CHOOSE i \in DOMAIN NameSeq : NameSeq[i] = n

\* The names of the descriptors of class k in the order of their
\* declaration: those of the bases first, each name once.
DeclNames(cd, k) ==
    LET cs == Mro(cd, k)
        rev == [i \in DOMAIN cs |-> cs[Len(cs) + 1 - i]]
        its == allAttrsOf([c \in DOMAIN cd |-> [cd[c] EXCEPT !.bases = <<>>]], rev)
    IN Dedup(SelectSeq([i \in DOMAIN its |-> its[i].n],
                       LAMBDA n : n \notin Private), {})

\* C22 (as the code has it): getAllProperties returns the names under which
\* a descriptor is reachable on the class and which do not begin with an
\* underscore, each once, in the sorted order of dir(), and with them the
\* descriptors, that of name i at index i.
C22_SortedOrder ==
    GetAllDone =>
        /\ Len(ret) = 2
        /\ Range(ret[1]) = {n \in Range(NameSeq) :
                               hasattr(cdict, lastOp.a, n) /\ n \notin Private}
        /\ \A i, j \in DOMAIN ret[1] : i < j => Rank(ret[1][i]) < Rank(ret[1][j])
        /\ DOMAIN ret[2] = DOMAIN ret[1]
        /\ \A i \in DOMAIN ret[1] : ret[2][i] = getattr(cdict, lastOp.a, ret[1][i])

\* A class that declares q before p returned <<p, q>>.
C22_Witness ==
    /\ GetAllDone
    /\ ret[1] = <<"p", "q">>
    /\ Len(cdict[lastOp.a].items) = 2
    /\ cdict[lastOp.a].items[1].n = "q"

\* C22 (as the specification has it): the names come in the order of their
\* declaration.
C22_DeclarationOrder ==
    GetAllDone =>
        /\ ret[1] = DeclNames(cdict, lastOp.a)
        /\ DOMAIN ret[2] = DOMAIN ret[1]
        /\ \A i \in DOMAIN ret[1] : ret[2][i] = getattr(cdict, lastOp.a, ret[1][i])

\* ------------------------------------------------------- claims on values
\* The last call was an assignment to an enabled property whose container
\* has allowInvalid=False.
StrictWriteDone ==
    /\ Done
    /\ lastOp.op = "descSet"
    /\ ~pre.allowInv[lastOp.a]
    /\ pre.attrs[lastOp.a].enabled = 1

isValid_always(s, c) == TRUE

\* HasProperties.isValid: the value of the container is validated again
\* with its attributes of now; False iff a ValueError is raised.
isValid(s, c) == validate(ptype[c], s.attrs[c], s.val[c])

\* host.isValid(name), called between two operations of the program.
IsValid(c) ==
    /\ Done
    /\ ret' = <<c, isValid(Cur, c)>>
    /\ UNCHANGED <<qvars, hvars, ptype, kind, items, maps, hasL, ltype, val,
                   valid, attrs, allowInv, notif, syncing, bv, ba, queue,
                   queued, calling, skipDup, todo, exc, lastOp, pre, calls,
                   midSync, nested, unb>>

\* The program of Spec, asking whether the values are valid.
NextI ==
    \/ Next
    \/ \E c \in PVs : IsValid(c)

SpecI == Init /\ [][NextI]_vars

\* The last call was an assignment to an enabled property whose container is
\* not clamped and has allowInvalid=True.
LaxWriteDone ==
    /\ Done
    /\ lastOp.op = "descSet"
    /\ pre.allowInv[lastOp.a]
    /\ pre.attrs[lastOp.a].enabled = 1
    /\ pre.attrs[lastOp.a].clamped = 0

DeclaredO ==
    {[ptype  |-> [c \in PVs |-> "Int"], strict |-> {},
      attrs  |-> [c \in PVs |-> Constraints(MaxValue, 0)]],
     [ptype  |-> [c \in PVs |-> "Object"], strict |-> {},
      attrs  |-> [c \in PVs |-> Constraints(MaxValue, 0)]],
     [ptype  |-> [c \in PVs |-> IF c = 1 THEN "Int" ELSE "Object"],
      strict |-> {},
      attrs  |-> [c \in PVs |-> Constraints(MaxValue, 0)]]}

InitO == InitWith(DeclaredO, TRUE)

\* host.p = x; host.p = x
WriteTwice(c, x) ==
    /\ Idle
    /\ lastOp = NoOp
    /\ Finish(Run([Cur EXCEPT !.calls = [d \in DOMAIN calls |-> 0],
                                !.midSync = FALSE],
                  <<MkOp("descSet", c, c, "", x, FALSE, FALSE),
                    MkOp("descSet", c, c, "", x, FALSE, FALSE)>>, FALSE))
    /\ lastOp' = MkOp("setTwice", c, c, "", x, FALSE, FALSE)
    /\ nested' = 0
    /\ UNCHANGED <<qvars, hvars, ret, ptype, hasL, ltype, skipDup, pre, unb>>

\* The program writing values once or twice in a row to Int and Object
\* properties, bound or not.
NextO ==
    \/ \E c \in PVs, x \in Values : Write(c, x)
    \/ \E c \in PVs, x \in Values : WriteTwice(c, x)
    \/ \E a, b \in PVs : a # b /\ Bind(a, b, TRUE, TRUE)
    \/ \E a, b \in PVs : a # b /\ Unbind(a, b, TRUE, TRUE)
    \/ CallListener
    \/ Return
    \/ Forget

SpecO == InitO /\ [][NextO]_vars

\* The two writes of host.p = x; host.p = x have returned.
TwiceDone == Done /\ lastOp.op = "setTwice" /\ exc = "none"

MaxChoices == 3     \* choices a Choice property has at most
NumChoicePV == 1    \* Choice properties the program works on

ChoiceVals == 0..(MaxChoices - 1)
ChoicePVs == 1..NumChoicePV

\* The attributes Choice.__init__ gives a property declared as
\* Choice(choices, default=d): every choice is enabled and has no
\* alternates.  altLists[ch] is the set of the alternates of ch; the
\* dictionary labels has the keys of altLists at all times and is not kept.
ChoiceAttrs(choices, d) ==
    [choices |-> choices, default |-> d, enabled |-> 1,
     choiceEnabled |-> [ch \in Range(choices) |-> TRUE],
     altLists |-> [ch \in Range(choices) |-> {}]]

\* The list of choices [0, .., n - 1].
FirstChoices(n) == [i \in 1..n |-> i - 1]

\* Hosts with one property Choice([0, .., n - 1], default=d) each, d being
\* any value, a choice or not: Choice.__init__ takes the default as it is
\* given, declares allowInvalid=False, and the value of a new container is
\* the default.
InitC ==
    /\ ptype = [c \in PVs |-> "Choice"]
    /\ allowInv = [c \in PVs |-> FALSE]
    /\ \E n \in (MaxChoices - 1)..MaxChoices, d \in ChoiceVals :
          /\ attrs = [c \in PVs |-> ChoiceAttrs(FirstChoices(n), d)]
          /\ val = [c \in PVs |-> d]
    /\ kind = [c \in PVs |-> "scalar"]
    /\ items = [c \in PVs |-> <<>>]
    /\ maps = [p \in {} |-> <<>>]
    /\ hasL = PVs
    /\ ltype = [c \in {} |-> <<>>]
    /\ valid = [c \in PVs |-> TRUE]
    /\ notif = [c \in PVs |-> TRUE]
    /\ syncing = [c \in PVs |-> FALSE]
    /\ bv = [c \in PVs |-> {}]
    /\ ba = [c \in PVs |-> {}]
    /\ queue = <<>>
    /\ queued = {}
    /\ calling = FALSE
    /\ skipDup = TRUE
    /\ todo = <<>>
    /\ exc = "none"
    /\ lastOp = NoOp
    /\ pre = Snapshot
    /\ calls = [c \in PVs |-> 0]
    /\ midSync = FALSE
    /\ nested = 0
    /\ unb = {}
    /\ NoCalls
    /\ NoClasses

Choice_default_first(at, choices) == choices[1]

\* __updateChoices: the default stays if it is one of the new choices, else
\* it becomes the first of them.
Choice_default(at, choices) ==
    IF at.default \in Range(choices) THEN at.default ELSE choices[1]

\* __updateChoices: the enabled flags of the choices that stay are kept, a
\* new choice is enabled.
Choice_newEnabled(at, choices) ==
    [ch \in Range(choices) |->
        IF ch \in DOMAIN at.choiceEnabled THEN at.choiceEnabled[ch] ELSE TRUE]

\* __updateChoices, the end: s is the state after the constraints were set,
\* with the notification of c disabled and allowInvalid switched on.  If the
\* old value is not a choice any more the value becomes the default; the
\* two flags are restored, the attribute listeners are told of the choices
\* and, if the value is another one, the value listeners are notified.
Choice_reassign(s0, s, c, choices) ==
    LET s3 == IF s0.val[c] \in Range(choices) THEN s
              ELSE Run(s, <<MkOp("set", c, c, "", s.attrs[c].default, FALSE,
                                 FALSE)>>, TRUE).s
        s4 == [s3 EXCEPT !.notif[c] = s0.notif[c],
                         !.allowInv[c] = s0.allowInv[c]]
    IN Step(IF s0.notif[c]
            THEN _notifyAttributeListeners(s4, c, "choices", choices).s
            ELSE s4,
            IF s3.val[c] # s0.val[c]
            THEN <<MkOp("notify", c, c, "", 0, FALSE, FALSE)>>
            ELSE <<>>)

\* Choice.__generateAlternatesDict raises ValueError: an alternate value is
\* given for two choices.
DuplicateAlternate(altLists) ==
    \E a, b \in DOMAIN altLists : a # b /\ altLists[a] \cap altLists[b] # {}

\* Choice.__updateChoices(choices, labels, altLists) for the container c of
\* an instance.  choices[0] raises IndexError when the default is not a
\* choice and no choice is left, and __generateAlternatesDict raises
\* ValueError; the notification is disabled and allowInvalid is on by
\* then, and no constraint has been set.
Choice_updateChoices(s, c, choices, altLists) ==
    IF choices = <<>>
    THEN Raise([s EXCEPT !.notif[c] = FALSE, !.allowInv[c] = TRUE],
               "IndexError")
    ELSE IF DuplicateAlternate(altLists)
    THEN Raise([s EXCEPT !.notif[c] = FALSE, !.allowInv[c] = TRUE],
               "ValueError")
    ELSE Choice_reassign(
            s,
            [s EXCEPT !.notif[c] = FALSE, !.allowInv[c] = TRUE,
                      !.attrs[c].choiceEnabled =
                          Choice_newEnabled(s.attrs[c], choices),
                      !.attrs[c].altLists = altLists,
                      !.attrs[c].choices = choices,
                      !.attrs[c].default =
                          Choice_default(s.attrs[c], choices)],
            c, choices)

\* dict.pop(k) on a dictionary that has the key k
DictPop(d, k) == [x \in DOMAIN d \ {k} |-> d[x]]

\* d[k] = v on a dictionary
DictSet(d, k, v) == [x \in DOMAIN d \cup {k} |-> IF x = k THEN v ELSE d[x]]

\* Choice.removeChoice(choice, instance): list.remove takes out the first
\* occurrence and raises ValueError if there is none; labels.pop and
\* altLists.pop raise KeyError for a choice that was in the list twice and
\* has been removed once.
removeChoice(s, c, ch) ==
    IF ch \notin Range(s.attrs[c].choices) THEN Raise(s, "ValueError")
    ELSE IF ch \notin DOMAIN s.attrs[c].altLists THEN Raise(s, "KeyError")
    ELSE Choice_updateChoices(
            s, c,
            RemoveAt(s.attrs[c].choices, IndexOf(s.attrs[c].choices, ch)),
            DictPop(s.attrs[c].altLists, ch))

\* Choice.addChoice(choice, alternate=alt, instance): the choice is
\* appended, with the alternates alt.
addChoice(s, c, ch, alt) ==
    Choice_updateChoices(s, c, Append(s.attrs[c].choices, ch),
                         DictSet(s.attrs[c].altLists, ch, alt))

\* Choice.enableChoice / disableChoice(choice, instance): choiceEnabled[choice]
\* is set, whether or not choice is a choice.
setChoiceEnabled(s, c, ch, on) ==
    PVSetAttribute(s, c, "choiceEnabled",
                   [x \in DOMAIN s.attrs[c].choiceEnabled \cup {ch} |->
                       IF x = ch THEN on ELSE s.attrs[c].choiceEnabled[x]])

\* A call of a method of a Choice descriptor by application code while
\* nothing else is running: r is what the method did.
ChoiceCall(o, r) ==
    /\ Idle
    /\ lastOp = NoOp
    /\ Finish(Run(r.s, r.more, FALSE))
    /\ lastOp' = o
    /\ nested' = 0
    /\ UNCHANGED <<qvars, hvars, ret, ptype, hasL, ltype, skipDup, pre, unb>>

Fresh == [Cur EXCEPT !.calls = [c \in DOMAIN calls |-> 0], !.midSync = FALSE]

RemoveChoice(c, ch) ==
    /\ c \in ChoicePVs
    /\ ChoiceCall(MkOp("removeChoice", c, c, "", ch, FALSE, FALSE),
       removeChoice(Fresh, c, ch))

AddChoice(c, ch) ==
    /\ Len(attrs[c].choices) < MaxChoices
    /\ ChoiceCall(MkOp("addChoice", c, c, "", ch, FALSE, FALSE),
                  addChoice(Fresh, c, ch, {}))

DisableChoice(c, ch) ==
    /\ c \in ChoicePVs
    /\ ChoiceCall(MkOp("disableChoice", c, c, "", ch, FALSE, FALSE),
       setChoiceEnabled(Fresh, c, ch, FALSE))

EnableChoice(c, ch) ==
    /\ c \in ChoicePVs
    /\ ChoiceCall(MkOp("enableChoice", c, c, "", ch, FALSE, FALSE),
       setChoiceEnabled(Fresh, c, ch, TRUE))

\* The program writing to Choice properties and changing their choices.
NextC ==
    \/ \E c \in ChoicePVs, x \in ChoiceVals : Write(c, x)
    \/ \E c \in ChoicePVs, ch \in ChoiceVals : RemoveChoice(c, ch)
    \/ \E c \in ChoicePVs, ch \in ChoiceVals : AddChoice(c, ch)
    \/ \E c \in ChoicePVs, ch \in ChoiceVals : DisableChoice(c, ch)
    \/ \E c \in ChoicePVs, ch \in ChoiceVals : EnableChoice(c, ch)
    \/ CallListener
    \/ Return
    \/ Forget

SpecC == InitC /\ [][NextC]_vars

\* removeChoice has returned or raised.
RemoveDone == Done /\ lastOp.op = "removeChoice"

\* The choices before the call once the first lastOp.v is taken out.
Remaining ==
    RemoveAt(pre.attrs[lastOp.a].choices,
             IndexOf(pre.attrs[lastOp.a].choices, lastOp.v))

\* The value the claim gives the property when its value is removed.
Reassigned ==
    IF pre.attrs[lastOp.a].default \in Range(Remaining)
    THEN pre.attrs[lastOp.a].default
    ELSE Remaining[1]

\* The choice removed was in the list of choices exactly once.
RemovedOnce ==
    Cardinality({i \in DOMAIN pre.attrs[lastOp.a].choices :
                    pre.attrs[lastOp.a].choices[i] = lastOp.v}) = 1

\* The choice removed had its label and its alternates: it was not added a
\* second time and removed once since.
HasLabel == lastOp.v \in DOMAIN pre.attrs[lastOp.a].altLists

\* The value before the call was one of the choices.
WasChoice == pre.val[lastOp.a] \in Range(pre.attrs[lastOp.a].choices)

isEnabled(s, c) == s.attrs[c].enabled = 1

\* HasProperties.propertyIsEnabled(name): getProp(name).isEnabled() is
\* called without the instance, which isEnabled(self, instance) requires:
\* the call raises TypeError and nothing is returned.
propertyIsEnabled(s, c) == [exc |-> "TypeError", ret |-> <<>>]

\* The variables a call that only reads leaves alone.
ReadRest == <<qvars, hvars, ptype, kind, items, maps, hasL, ltype, val,
              valid, attrs, allowInv, notif, syncing, bv, ba, queue, queued,
              calling, skipDup, todo, pre, calls, midSync, nested, unb>>

\* type(host).p.isEnabled(host)
IsEnabled(c) ==
    /\ Idle
    /\ lastOp = NoOp
    /\ ret' = <<isEnabled(Cur, c)>>
    /\ exc' = "none"
    /\ lastOp' = MkOp("isEnabled", c, c, "", 0, FALSE, FALSE)
    /\ UNCHANGED ReadRest

\* host.propertyIsEnabled(name)
PropertyIsEnabled(c) ==
    /\ Idle
    /\ lastOp = NoOp
    /\ ret' = propertyIsEnabled(Cur, c).ret
    /\ exc' = propertyIsEnabled(Cur, c).exc
    /\ lastOp' = MkOp("propertyIsEnabled", c, c, "", 0, FALSE, FALSE)
    /\ UNCHANGED ReadRest

\* The program of SpecD, asking whether the properties are enabled.
NextE ==
    \/ NextD
    \/ \E c \in PVs : IsEnabled(c)
    \/ \E c \in PVs : PropertyIsEnabled(c)

SpecE == Init /\ [][NextE]_vars

\* C27: propertyIsEnabled(name) returns, without raising, whether the
\* property is enabled on the host: True if it was never disabled or was
\* enabled last, False if it was disabled last.
C27_PropertyIsEnabled ==
    lastOp.op = "propertyIsEnabled" =>
        /\ exc = "none"
        /\ ret = <<attrs[lastOp.a].enabled = 1>>

\* ------------------------------------------- failures of the list sync
MaxLenM == 2        \* items of a list in the program that goes on after a failure

\* The call has returned or raised and its caller goes on, also when the
\* call has left bound lists out of step; the program is followed for one
\* call more after that.
ForgetM ==
    /\ Idle
    /\ lastOp # NoOp
    /\ \/ \A a, b \in Lists : {a, b} \in DOMAIN maps => Paired(a, b)
       \/ \A a, b \in Lists :
             {a, b} \in DOMAIN pre.maps => PairedIn(pre, a, b)
    /\ lastOp' = NoOp
    /\ LET s == Renumber(Cur)
       IN /\ Commit([s EXCEPT !.calls = [c \in DOMAIN calls |-> 0],
                              !.midSync = FALSE])
          /\ pre' = SnapOf(s)
    /\ exc' = "none"
    /\ nested' = 0
    /\ hist' = NoHist
    /\ UNCHANGED <<stack, hvars, ret, ptype, hasL, ltype, calling, skipDup,
                   todo, unb>>

\* What CallQueue._call does with a listener that raised e: the exception
\* is caught and logged, and the loop goes on.
_call_raised(e) == e

_call_caught(e) == "none"

\* CallQueue._call: one turn of the loop, with a listener that inserts x
\* at position i of the list l.  hist.outcome records the insertion and
\* what the listener's statement raised.
CallListenerInsert(l, i, x) ==
    /\ calling
    /\ queue # <<>>
    /\ nested < MaxNested
    /\ Len(items[l]) < MaxLenM
    /\ i <= Len(items[l])
    /\ LET r == Run([Pop(Cur) EXCEPT !.calls[Head(queue).fn] = @ + 1],
                    <<MkOp("insert", l, i, "", x, FALSE, FALSE)>>, FALSE).s
       IN /\ r.exc # "NoRoom"
          /\ Commit([r EXCEPT !.exc = "none"])
          /\ hist' = [hist EXCEPT !.outcome = Append(@, <<l, i, x, r.exc>>)]
          /\ exc' = IF exc # "none" THEN exc ELSE _call_caught(r.exc)
    /\ nested' = nested + 1
    /\ UNCHANGED <<stack, hvars, ret, ptype, hasL, ltype, skipDup, calling,
                   todo, lastOp, pre, unb>>

\* host.l.insert(i, x) on a list of less than MaxLenM items
ListInsertM(l, i, x) ==
    /\ Len(items[l]) < MaxLenM
    /\ ListInsert(l, i, x)

\* The program of SpecL, with lists of MaxLenM items at most, going on after
\* a call that raised or left bound lists out of step, with listeners that
\* insert items.
NextM ==
    \/ \E l \in Lists, i \in 0..MaxLenM, x \in Values : ListInsertM(l, i, x)
    \/ \E l \in Lists, i \in 0..MaxLenM : ListDelete(l, i)
    \/ \E a, b \in Lists : a # b /\ ListBind(a, b, TRUE)
    \/ \E l \in Lists, i \in 0..MaxLenM, x \in Values :
          CallListenerInsert(l, i, x)
    \/ CallListener
    \/ Return
    \/ ForgetM

SpecM == InitL /\ [][NextM]_vars

\* An error of the kind a lookup that misses raises.
LookupErrors == {"KeyError", "ValueError"}

\* In the state h the insertion of x (after the cast) at i into the list m
\* makes it as long as a list s bound to it but not equal to it, and an item of s is paired
\* with no item of m: _sync, which m is not in the middle of, calls
\* _syncPropValLists, where the lookup of that item misses.
MissOnInsert(h, m, i, x) ==
    \E s \in Lists \ {m} :
        /\ {m, s} \in DOMAIN h.maps
        /\ s \in h.bv[m]
        /\ ~h.syncing[m]
        /\ Len(h.items[s]) = Len(h.items[m]) + 1
        /\ InsertAt(ListVal(h, m), i, castFunc(ltype[m].attrs, x))
              # ListVal(h, s)
        /\ \E k \in 1..Len(h.items[s]) :
              \/ h.items[s][k] \notin DOMAIN h.maps[{m, s}]
              \/ h.maps[{m, s}][h.items[s][k]] \notin Range(h.items[m])

\* The step is an insertion made by a listener.
ListenerInserts == Len(hist'.outcome) = Len(hist.outcome) + 1

\* What hist.outcome records of the last insertion made by a listener.
LastInsert == hist'.outcome[Len(hist'.outcome)]

StructDone ==
    /\ Done
    /\ lastOp.op \in {"insert", "extend", "delitem", "reorder"}
    /\ exc = "none"

\* C29: after a structural change of a list and its synchronisation, the
\* bijection of every directly bound pair of lists maps item k of one list
\* to item k of the other for every k, and holds no other item.
C29_Bijection ==
    StructDone =>
        \A a, b \in Lists : (a # b /\ b \in bv[a]) => Paired(a, b)

\* ------------------------------------------------------ selective binding
\* bindProps with one of bindval and bindatt only.
Selective == {<<TRUE, FALSE>>, <<FALSE, TRUE>>}

\* The program binding values only or attributes only, writing values and
\* enabling and disabling properties.
NextS ==
    \/ \E c \in PVs, x \in Values : Write(c, x)
    \/ \E c \in PVs : Enable(c)
    \/ \E c \in PVs : Disable(c)
    \/ \E a, b \in PVs, f \in Selective : a # b /\ Bind(a, b, f[1], f[2])
    \/ CallListener
    \/ Return
    \/ Forget

SpecS == Init /\ [][NextS]_vars

\* bindProps(bindval=fv, bindatt=fa) has returned normally.
BoundWith(fv, fa) ==
    BindDone /\ exc = "none" /\ lastOp.fv = fv /\ lastOp.fa = fa

\* C30: bindProps with bindval only copies the value and no attribute and
\* adds an edge for values only; with bindatt only it copies the attributes
\* and no value and adds an edge for attributes only.  A write changes the
\* value of no container that is not connected to the written one by value
\* edges, and a write of another value that no cast alters reaches those
\* that are; enabling or disabling changes the
\* attributes of no container that is not connected by attribute edges, and
\* reaches those that are.
C30_Selective ==
    /\ BoundWith(TRUE, FALSE) =>
          /\ attrs = pre.attrs
          /\ ba = pre.ba
          /\ lastOp.b \in bv[lastOp.a]
          /\ val[lastOp.a] = castFunc(attrs[lastOp.a], pre.val[lastOp.b])
    /\ BoundWith(FALSE, TRUE) =>
          /\ val = pre.val
          /\ bv = pre.bv
          /\ lastOp.b \in ba[lastOp.a]
          /\ attrs[lastOp.a] = pre.attrs[lastOp.b]
    /\ WriteDone =>
          /\ attrs = pre.attrs
          /\ \A b \in PVs \ Connected(pre.bv, lastOp.a) : val[b] = pre.val[b]
          /\ (pre.val[lastOp.a] # lastOp.v
                /\ CastKeeps(pre.bv, lastOp.a, lastOp.v)) =>
                \A b \in Connected(pre.bv, lastOp.a) : val[b] = lastOp.v
    /\ (Done /\ lastOp.op = "setAttribute") =>
          /\ val = pre.val
          /\ \A b \in PVs \ Connected(pre.ba, lastOp.a) :
                attrs[b] = pre.attrs[b]
          /\ \A b \in Connected(pre.ba, lastOp.a) :
                attrs[b].enabled = lastOp.v

\* A property was disabled while it was bound to another by values only and
\* to a third by attributes only: the third is disabled, the other is not.
C30_Witness ==
    /\ Done
    /\ lastOp.op = "setAttribute"
    /\ lastOp.v = 0
    /\ \E b, c \in PVs :
          /\ b \in pre.bv[lastOp.a] /\ b \notin Connected(pre.ba, lastOp.a)
          /\ c \in pre.ba[lastOp.a]
          /\ pre.attrs[b].enabled = 1 /\ attrs[b].enabled = 1
          /\ pre.attrs[c].enabled = 1 /\ attrs[c].enabled = 0

\* ------------------------------------------- the order of the notifications
\* The containers the propagation from S reaches, in the order of the
\* traversal, as they were when the running call started.
Reached(S) == _buildBPVList(pre.bv, S).pvs

\* The reached containers whose value differed from the value S has now.
Differing(S) ==
    SelectSeq(Reached(S), LAMBDA c : ~equalityFunc(pre.val[c], val[S]))

\* The order in which the listeners are to be called: S, then the changed
\* containers.
NotifyOrder(S) == <<S>> \o Differing(S)

\* A write to a property is under way or has returned, and it changed the
\* value of the property.
Propagating == lastOp.op = "descSet" /\ val[lastOp.a] # pre.val[lastOp.a]

\* C31: in the propagation of a write to S, the listener called next is that
\* of S or of a reached container whose value differed from that of S; the
\* listeners before it in the order S, then the differing containers in
\* traversal order, have been called once and those after it not yet; once
\* the write has returned every one of them was called once, and a reached
\* container that held the value of S already kept it and its listener was
\* not called.
C31_NotifyOrder ==
    [][Propagating =>
        /\ (calling /\ queue # <<>>) =>
              LET L == NotifyOrder(lastOp.a)
                  c == Head(queue).fn
              IN /\ c \in Range(L)
                 /\ \A i \in DOMAIN L :
                       calls[L[i]] = IF i - 1 < IndexOf(L, c) THEN 1 ELSE 0
        /\ (Done /\ exc = "none") =>
              /\ \A c \in Range(NotifyOrder(lastOp.a)) : calls[c] = 1
              /\ \A c \in Range(Reached(lastOp.a)) :
                    equalityFunc(pre.val[c], val[lastOp.a]) =>
                        val[c] = pre.val[c] /\ calls[c] = 0]_vars

\* A write has returned that reached two containers: one held the value
\* already and was left alone, the other was changed and notified after S.
C31_Witness ==
    /\ Done
    /\ Propagating
    /\ exc = "none"
    /\ Len(Reached(lastOp.a)) = 2
    /\ Len(Differing(lastOp.a)) = 1
    /\ calls[Differing(lastOp.a)[1]] = 1
    /\ \E c \in Range(Reached(lastOp.a)) :
          pre.val[c] = val[lastOp.a] /\ calls[c] = 0

\* -------------------------------------------- the attributes of list items
\* host.getPropVal(l).getPropertyValueList()[i].setAttribute('enabled', v),
\* i counted from 0; v is 0 for False.
ItemSetAttribute(l, i, v) ==
    /\ i < Len(items[l])
    /\ Begin(MkOp("setAttribute", items[l][i + 1], items[l][i + 1], "enabled",
                  v, FALSE, FALSE))
    /\ UNCHANGED unb

\* The program binding lists with bindatt=False only, inserting into them
\* and disabling their items.
NextA ==
    \/ \E l \in Lists, i \in 0..MaxLen, x \in Values : ListInsert(l, i, x)
    \/ \E a, b \in Lists : a # b /\ ListBind(a, b, FALSE)
    \/ \E l \in Lists, i \in 0..(MaxLen - 1) : ItemSetAttribute(l, i, 0)
    \/ CallListener
    \/ Return
    \/ ForgetL

SpecA == InitL /\ [][NextA]_vars

\* setAttribute on an item of a list has returned.
ItemAttDone ==
    /\ Done
    /\ lastOp.op = "setAttribute"
    /\ kind[lastOp.a] = "item"

\* C32: the lists being bound with bindatt=False, an attribute change on an
\* item of one list leaves the attributes of the item it is paired with in
\* the other list as they were.
C32_ItemAttsUnbound ==
    ItemAttDone =>
        \A p \in DOMAIN pre.maps :
            lastOp.a \in DOMAIN pre.maps[p] =>
                attrs[pre.maps[p][lastOp.a]] = pre.attrs[pre.maps[p][lastOp.a]]

\* ---------------------------------------------- the symmetry of the edges
\* The dictionary g (boundPropVals or boundAttPropVals) holds every edge on
\* both of its endpoints.
Symmetric(g) == \A x, y \in DOMAIN g : y \in g[x] <=> x \in g[y]

\* C33: whenever no call is running, whatever bindProps and unbindProps calls
\* were made before, Y is in the value-bound set of X iff X is in that of Y,
\* and likewise for the attribute-bound sets.
C33_Symmetric == Idle => Symmetric(bv) /\ Symmetric(ba)

\* unbindProps has returned normally and removed the edges of a pair on both
\* endpoints, while another pair is still bound on both endpoints.
C33_Witness ==
    /\ UnbindDone
    /\ exc = "none"
    /\ lastOp.b \in pre.bv[lastOp.a]
    /\ lastOp.b \notin bv[lastOp.a]
    /\ lastOp.a \notin bv[lastOp.b]
    /\ \E x, y \in PVs : x # y /\ y \in bv[x] /\ x \in bv[y]

\* ------------------------------------------------ the flags after a call
\* The containers that existed when the last call started and still exist.
Kept ==
    Lists \cup (UNION {Range(pre.items[l]) : l \in Lists}
                \cap UNION {Range(items[l]) : l \in Lists})

\* The program of SpecM with listeners that only look.
NextF ==
    \/ \E l \in Lists, i \in 0..MaxLenM, x \in Values : ListInsertM(l, i, x)
    \/ \E l \in Lists, i \in 0..MaxLenM : ListDelete(l, i)
    \/ \E a, b \in Lists : a # b /\ ListBind(a, b, TRUE)
    \/ CallListener
    \/ Return
    \/ ForgetM

SpecF == InitL /\ [][NextF]_vars

\* C34: when a top-level call has returned or raised, no container is marked
\* as being synchronised, and the notification flag and allowInvalid of
\* every container are what they were before the call.
C34_FlagsRestored ==
    Done =>
        /\ \A c \in DOMAIN syncing : ~syncing[c]
        /\ \A c \in Kept :
              notif[c] = pre.notif[c] /\ allowInv[c] = pre.allowInv[c]

\* ------------------------------------------------- unbinding, all or nothing
\* C35: unbindProps either returns with every edge it was asked to remove
\* gone from both endpoints, or raises and leaves the value-bound and the
\* attribute-bound sets of every container as they were.
C35_AllOrNothing ==
    UnbindDone =>
        IF exc = "none"
        THEN /\ lastOp.fv => /\ lastOp.b \notin bv[lastOp.a]
                             /\ lastOp.a \notin bv[lastOp.b]
             /\ lastOp.fa => /\ lastOp.b \notin ba[lastOp.a]
                             /\ lastOp.a \notin ba[lastOp.b]
        ELSE bv = pre.bv /\ ba = pre.ba

\* --------------------------------------------- disabled and value-bound
\* host.p = x has returned or raised, p being enabled.
EnabledWriteDone ==
    /\ Done
    /\ lastOp.op = "descSet"
    /\ pre.attrs[lastOp.a].enabled = 1

\* The containers bound by value to the written one, directly or not, that
\* were disabled when the write started.
DisabledReached ==
    {b \in Connected(pre.bv, lastOp.a) \ {lastOp.a} :
        pre.attrs[b].enabled = 0}

\* C36: a write to an enabled property never raises DisabledError, whatever
\* disabled properties it is value-bound to, and a write that returns
\* normally and changes the value, which no cast alters, gives the value to
\* every disabled property bound to the written one.
C36_DisabledSynced ==
    EnabledWriteDone =>
        /\ exc # "DisabledError"
        /\ (exc = "none" /\ pre.val[lastOp.a] # lastOp.v
              /\ CastKeeps(pre.bv, lastOp.a, lastOp.v)) =>
              \A b \in DisabledReached : val[b] = lastOp.v

\* A write has changed the value of a disabled property bound to the written
\* one, which stayed disabled.
C36_Witness ==
    /\ EnabledWriteDone
    /\ exc = "none"
    /\ \E b \in DisabledReached :
          /\ pre.val[b] # lastOp.v
          /\ val[b] = lastOp.v
          /\ attrs[b].enabled = 0

\* ------------------------------------------- the other choice operations
\* A value that is no choice and is given as an alternate.
AltVal == MaxChoices

\* The lists setChoices is called with.
SetLists == <<<<>>, <<0>>, <<1, 0>>, <<0, 0>>>>

\* Choice.setChoices(choices, instance): labels and alternates are made
\* for the choices; a list with a choice twice gets fewer labels than it
\* has choices, which raises ValueError.
setChoices(s, c, choices) ==
    IF Cardinality(Range(choices)) # Len(choices) THEN Raise(s, "ValueError")
    ELSE Choice_updateChoices(s, c, choices, [ch \in Range(choices) |-> {}])

\* Choice.updateChoice(choice, newChoice, instance): choices.index raises
\* ValueError, labels[choice] raises KeyError; the label and the alternates
\* go to newChoice and those of choice are popped.
updateChoice(s, c, ch, new) ==
    IF ch \notin Range(s.attrs[c].choices) THEN Raise(s, "ValueError")
    ELSE IF ch \notin DOMAIN s.attrs[c].altLists THEN Raise(s, "KeyError")
    ELSE Choice_updateChoices(
            s, c,
            [s.attrs[c].choices EXCEPT
                ![IndexOf(s.attrs[c].choices, ch) + 1] = new],
            DictPop(DictSet(s.attrs[c].altLists, new,
                            s.attrs[c].altLists[ch]), ch))

\* host.getProp(p).addChoice(ch, alternate=[AltVal], instance=host)
AddChoiceAlt(c, ch) ==
    /\ Len(attrs[c].choices) < MaxChoices
    /\ ChoiceCall(MkOp("addChoice", c, c, "alternate", ch, FALSE, FALSE),
                  addChoice(Fresh, c, ch, {AltVal}))

\* host.getProp(p).setChoices(SetLists[k], instance=host)
SetChoices(c, k) ==
    /\ c \in ChoicePVs
    /\ ChoiceCall(MkOp("setChoices", c, c, "", k, FALSE, FALSE),
                  setChoices(Fresh, c, SetLists[k]))

\* host.getProp(p).updateChoice(ch, newChoice=new, instance=host)
UpdateChoice(c, ch, new) ==
    /\ c \in ChoicePVs
    /\ ChoiceCall(MkOp("updateChoice", c, new, "", ch, FALSE, FALSE),
                  updateChoice(Fresh, c, ch, new))

\* The program changing the choices of Choice properties in every way.
NextT ==
    \/ \E c \in ChoicePVs, x \in ChoiceVals : Write(c, x)
    \/ \E c \in ChoicePVs, ch \in ChoiceVals : RemoveChoice(c, ch)
    \/ \E c \in ChoicePVs, ch \in ChoiceVals : AddChoice(c, ch)
    \/ \E c \in ChoicePVs, ch \in ChoiceVals : AddChoiceAlt(c, ch)
    \/ \E c \in ChoicePVs, k \in DOMAIN SetLists : SetChoices(c, k)
    \/ \E c \in ChoicePVs, ch, new \in ChoiceVals : UpdateChoice(c, ch, new)
    \/ CallListener
    \/ Return
    \/ Forget

SpecT == InitC /\ [][NextT]_vars

\* A call that changes the choices has returned or raised.
ChoiceOpDone ==
    /\ Done
    /\ lastOp.op \in {"addChoice", "removeChoice", "setChoices",
                      "updateChoice"}

\* C37: when addChoice, removeChoice, setChoices or updateChoice has
\* returned or raised, the notification flag and allowInvalid of the
\* container are what they were before the call; removeChoice of the only
\* choice leaves the value None.
C37_FlagsKept ==
    ChoiceOpDone =>
        /\ notif[lastOp.a] = pre.notif[lastOp.a]
        /\ allowInv[lastOp.a] = pre.allowInv[lastOp.a]
        /\ (lastOp.op = "removeChoice"
              /\ pre.attrs[lastOp.a].choices = <<lastOp.v>>) =>
              val[lastOp.a] = NoChoice

\* ---------------------------------------------- properties added to hosts
\* host.addProperty(n, d) with a descriptor the class of the host has no
\* label for, as a descriptor made for the call has none.
AddFreshProperty(i, n, d) ==
    /\ i \in DOMAIN idict
    /\ idict[i].cls \notin DOMAIN label[d]
    /\ AddProperty(i, n, d)

\* Application code defining classes with at most one descriptor each,
\* constructing hosts and adding descriptors to them.
NextP ==
    \/ \E bs \in BaseLists(cdict), its \in SmallBodies : DefineClass(bs, its)
    \/ \E k \in 1..NumClass : NewHost(k)
    \/ \E i \in 1..NumInst, n \in Names, d \in Descs : AddFreshProperty(i, n, d)
    \/ Forget

SpecP == InitH /\ [][NextP]_vars

\* C38: every host has a container under every name getAllProperties of its
\* class returns.
C38_ContainerPerName ==
    \A i \in DOMAIN idict :
        \A n \in Range(getAllProperties(cdict, idict[i].cls)[1]) :
            getPropVal(i, n) # 0

\* ------------------------------------------ CallQueue, mutable arguments
\* The argument above MaxValue is a mutable object, a list say; the running
\* function changes it, and str() of it changes with it.
Mutated(x) == IF x = MaxValue + 1 THEN MaxValue + 2 ELSE MaxValue + 1

\* CallQueue._pop, on a queue that is not empty: set.remove raises KeyError
\* for a key that is not in _queued, after get_nowait has taken the entry.
\* _call catches Queue.Empty only, so the exception leaves _call and the
\* call of application code that started it.
_pop(q) ==
    IF q.skipDup /\ Key(Head(q.queue)) \notin q.queued
    THEN [q EXCEPT !.queue = Tail(@), !.stack = <<>>, !.exc = "KeyError"]
    ELSE Pop(q)

\* _call pops the next entry and calls its function.
InvokePop ==
    /\ Running("drain")
    /\ ~QueueEmpty(CQ)
    /\ StoreCQ(IF _pop(CQ).exc # "none" THEN _pop(CQ)
               ELSE [_pop(CQ) EXCEPT !.stack =
                        Append(@, Frame("cb", Head(queue), <<>>, FALSE, 0))])
    /\ hist' = IF _pop(CQ).exc # "none" THEN hist
               ELSE [hist EXCEPT !.invoked = Append(@, Head(queue))]
    /\ UNCHANGED <<hvars, pvars, skipDup>>

\* The queued function that is running changes the mutable object that
\* entries of the queue have as their argument.
MutateArg ==
    /\ Running("cb")
    /\ \E i \in DOMAIN queue : queue[i].val > MaxValue
    /\ StoreCQ([CQ EXCEPT !.queue =
                   [i \in DOMAIN queue |->
                       IF queue[i].val > MaxValue
                       THEN [queue[i] EXCEPT !.val = Mutated(@)]
                       ELSE queue[i]]])
    /\ UNCHANGED <<hvars, pvars, skipDup, hist>>

\* Application code and queued functions using a CallQueue with arguments
\* that change; the program ends with an exception no one catches.
NextW ==
    \/ \E f \in Funcs, a \in QArgs : exc = "none" /\ Call(f, a)
    \/ InvokePop
    \/ MutateArg
    \/ CbReturn
    \/ CbRaise
    \/ DrainEnd
    \/ exc = "none" /\ ForgetQ

SpecW == InitQ /\ [][NextW]_vars

\* C39: when no call is under way the CallQueue is not draining and its
\* queue is empty; with skipDuplicates the pending keys are the keys of the
\* entries in the queue.
C39_QueueInvariant ==
    /\ stack = <<>> => ~calling /\ queue = <<>>
    /\ skipDup => queued = {Key(queue[i]) : i \in DOMAIN queue}

\* ------------------------------------------- re-enqueueing while running
\* The queued function that is executing: the frame above the drain.
Executing == Len(stack) >= 2 /\ stack[2].k = "cb"

\* The step is a push, made while a queued function executes, of an entry
\* with the key of that function, none of that key waiting in the queue.
ReEnqueue ==
    /\ skipDup
    /\ Executing
    /\ Len(hist'.attempts) = Len(hist.attempts) + 1
    /\ Key(hist'.attempts[Len(hist'.attempts)].e) = Key(stack[2].e)
    /\ \A i \in DOMAIN queue : Key(queue[i]) # Key(stack[2].e)

\* C40: with skipDuplicates the function that is executing is not pending:
\* an entry with its function and args enqueued during its execution, by
\* the function or by callAll called from it, none such waiting already, is
\* put at the end of the queue; and when the drain ends every entry that
\* was accepted has been invoked, in the order of acceptance.
C40_ExecutingNotPending ==
    [][/\ ReEnqueue =>
            queue' = Append(queue, hist'.attempts[Len(hist'.attempts)].e)
       /\ (calling /\ ~calling') => hist.invoked = Pushed]_vars

\* With skipDuplicates, application code called a function, the function
\* enqueued itself with arguments of the same str() while it ran, and it
\* was invoked a second time before the call of application code returned.
C40_Witness ==
    /\ skipDup
    /\ stack = <<>>
    /\ Len(hist.attempts) = 2
    /\ hist.attempts[1].e.src = 0
    /\ hist.attempts[2].e.src = 1
    /\ Key(hist.attempts[2].e) = Key(hist.attempts[1].e)
    /\ hist.attempts[2].accepted
    /\ Len(hist.invoked) = 2

====
